---- MODULE Spec2Model ----
(***************************************************************************)
(* Purrfect Universe NFT marketplace v2.2 (marketplace + bids system).     *)
(* The contract's datastore, the coins it holds, the external collection   *)
(* contract (ownerOf / isApprovedForAll / transferFrom) and the deferred   *)
(* autonomous calls are modelled as one state machine.  One call of an     *)
(* entry point is one atomic step: a failed assertion or a failed host     *)
(* call rolls the whole call back, so a failing call is a step that is not *)
(* enabled, and the <Name>Err operators tell which assertion stops it.     *)
(* Three more contracts of the repository have a specification of their    *)
(* own: the marketplace of marketplace.ts whose adminSendCoins reads the   *)
(* balance, the airdrop contract and the minting of the collection         *)
(* contract.                                                               *)
(***************************************************************************)
EXTENDS Integers, Sequences, FiniteSets, TLC

\* ---------------------------------------------------------------- bounds
MaxTime == 2          \* slots the clock runs past its first value
MaxListings == 2      \* successful sellOffer calls in one behaviour
MaxBids == 2          \* successful placeBid calls in one behaviour
MaxEvents == 1        \* rare events in one behaviour: off-marketplace token
                      \* transfers and configuration calls of the owner
WordBits == 29        \* width of the unsigned words (64 in the build)

U64 == 2 ^ WordBits

\* ------------------------------------------------------- sets of inputs
Addrs == {"a1", "a2", "a3"}            \* externally owned accounts
NewOwners == {"a3"}                    \* receivers of ownership and of tokens
Receivers == {"a1"}                    \* targets of adminSendCoins
Bytecodes == {"v2.2"}                  \* arguments of upgradeSmartContract
Approvals == {TRUE}                    \* arguments of setApprovalForAll
SELF == "marketplace"                  \* Context.callee()
Collections == {"c1"}
Tokens == {1, 10}
Prices == {150}
BidAmounts == {100}
BuyAmounts == {100, 150}
ExpireIns == {0, 500}                  \* 500 ms is one slot
Fees == {5, 200}
SendAmounts == {50}

\* ------------------------------------------------------------ constants
SELL_OFFER_PREFIX == "sellOffer_"
BID_PREFIX == "bid_"
PERCENT == 100
RAW_FEE == 50000000     \* rawFee of the deferred call, paid by the contract
CALL_COINS == 10000000  \* coins attached to the collection's transferFrom
\* the timestamp of genesis, 1705312800000 ms in the build, brought into the
\* word width of the model; like the build's it is a multiple of t0
genesisTimestamp == 170528000
t0 == 16000             \* milliseconds of a period
thread_count == 32      \* slots of a period

\* coins the deployer sends with the deployment, and coins sent to receiveCoins
DeployCoins == MaxListings * RAW_FEE + CALL_COINS
TopUps == {CALL_COINS}

OK == "ok"

\* ------------------------------------------------------------ variables
VARIABLES
  collections,    \* registered collection addresses (COLLECTION_PREFIX keys)
  marketplaceOwner, \* MARKETPLACE_OWNER_KEY
  marketplaceFee, \* MARKETPLACE_FEE_KEY
  offers,         \* sell offer key -> SellOffer
  bids,           \* bid key -> Bid
  balance,        \* coins held by the marketplace contract
  nftOwner,       \* collection contract: token -> owner
  approvedForAll, \* collection contract: owners that approved the marketplace
  now,            \* Context.timestamp()
  messages,       \* deferred autonomous calls not yet executed
  listings,       \* number of successful sellOffer calls
  bidCalls,       \* number of successful placeBid calls
  events,         \* number of rare events so far
  last,           \* the last successful call: entry point and arguments
  transfers,      \* the coins the last successful call sent out
  sendCoinsCall,  \* marketplace.ts: the last adminSendCoins call and its end
  airdrop,        \* airdrop.ts: the contract's datastore, coins and tokens
  nft             \* part_000: the minting collection's datastore

vars == <<collections, marketplaceOwner, marketplaceFee, offers, bids, balance,
          nftOwner, approvedForAll, now, messages, listings, bidCalls, events,
          last, transfers, sendCoinsCall, airdrop, nft>>

\* -------------------------------------------------------------- strings
DigitChars == <<"0", "1", "2", "3", "4", "5", "6", "7", "8", "9">>

RECURSIVE toString(_)
toString(n) ==
  IF n < 10 THEN <<DigitChars[n + 1]>>
  ELSE toString(n \div 10) \o <<DigitChars[(n % 10) + 1]>>

startsWith(k, p) == Len(p) <= Len(k) /\ SubSeq(k, 1, Len(p)) = p

_keyGenerator(address, tokenID) ==
  <<SELL_OFFER_PREFIX, address, "_">> \o toString(tokenID)

_bidKeyGenerator(collectionAddress, tokenID, bidder) ==
  <<BID_PREFIX, collectionAddress, "_">> \o toString(tokenID) \o <<"_", bidder>>

bidPrefix(collectionAddress, tokenID) ==
  <<BID_PREFIX, collectionAddress, "_">> \o toString(tokenID)

getKeys(prefix) == {k \in DOMAIN bids : startsWith(k, prefix)}

\* Storage.del : the host aborts the call when the key is absent
delAllowed(store, key) == key \in DOMAIN store

del(store, keys) == [k \in DOMAIN store \ keys |-> store[k]]

set(store, key, value) == [k \in DOMAIN store \cup {key} |->
                             IF k = key THEN value ELSE store[k]]

EmptyStore == [k \in {} |-> 0]

\* ------------------------------------------------- marketplace helpers
\* a variant that lets every caller pass
_onlyOwnerAnyCaller(caller) == TRUE

_onlyOwner(caller) == caller = marketplaceOwner

_marketplaceOwner == marketplaceOwner

_hasCollection(collectionAddress) == collectionAddress \in collections

isAddressEoa(address) == address \in Addrs

u64(x) == ((x % U64) + U64) % U64

u8(x) == x % 256

\* ------------------------------- the slot of the deferred call (sellOffer)
startPeriod(expirationTime) == u64(expirationTime - genesisTimestamp) \div t0

\* a variant that divides the whole distance from genesis by the slot length
startThreadOfDistance(expirationTime) ==
  u8(u64(expirationTime - genesisTimestamp) \div (t0 \div thread_count))

startThread(expirationTime) ==
  u8(u64(u64(expirationTime - genesisTimestamp)
           - u64(startPeriod(expirationTime) * t0))
       \div (t0 \div thread_count))

endPeriod(expirationTime) == u64(startPeriod(expirationTime) + 10)

endThread == 31

\* the timestamp of the first slot in which the host may execute message m
startTime(m) ==
  genesisTimestamp + m.startPeriod * t0
    + m.startThread * (t0 \div thread_count)

calculateMarketplaceFee(amount) == u64((amount \div PERCENT) * marketplaceFee)

\* ---------------------------------------- the external collection contract
_getNFTOwner(address, tokenID) == nftOwner[address][tokenID]

isApprovedForAll(address, owner) == owner \in approvedForAll[address]

\* transferFrom called by the marketplace: the caller must be an approved
\* operator of the owner, and `from` must be the owner
transferFromAllowed(address, from, tokenID) ==
  /\ from = nftOwner[address][tokenID]
  /\ isApprovedForAll(address, from)

transferFrom(address, to, tokenID) ==
  [nftOwner EXCEPT ![address][tokenID] = to]

\* ----------------------------------------------------------- transfers
Transfer(to, amount, kind, key) ==
  [to |-> to, amount |-> amount, kind |-> kind, key |-> key]

RECURSIVE total(_)
total(ts) ==
  IF ts = {} THEN 0
  ELSE LET x == CHOOSE y \in ts : TRUE IN x.amount + total(ts \ {x})

\* a transfer of coins aborts the call when the contract does not hold them
transferCoinsAllowed(ts, coins) == total(ts) <= balance + coins

NoCall == [op |-> "", caller |-> "", collection |-> "", token |-> 0,
           bidder |-> ""]

Call(op, caller, collection, token, bidder) ==
  [op |-> op, caller |-> caller, collection |-> collection, token |-> token,
   bidder |-> bidder]

\* ------------------------------------------------------------ resetBids
resetBidsKeys(store, collectionAddress, tokenID) ==
  {k \in DOMAIN store : startsWith(k, bidPrefix(collectionAddress, tokenID))}

\* a variant that refunds only when no buyer is named
resetBidsRefundedNoBuyerOnly(store, collectionAddress, tokenID, tokenBuyer) ==
  {k \in resetBidsKeys(store, collectionAddress, tokenID) : tokenBuyer = ""}

resetBidsRefunded(store, collectionAddress, tokenID, tokenBuyer) ==
  {k \in resetBidsKeys(store, collectionAddress, tokenID) :
     tokenBuyer = "" \/ store[k].bidder # tokenBuyer}

\* a variant that deletes the bids without refunding any
resetBidsTransfersNone(store, collectionAddress, tokenID, tokenBuyer) == {}

resetBidsTransfers(store, collectionAddress, tokenID, tokenBuyer) ==
  {Transfer(store[k].bidder, store[k].amount, "refund", k) :
     k \in resetBidsRefunded(store, collectionAddress, tokenID, tokenBuyer)}

resetBids(store, collectionAddress, tokenID) ==
  del(store, resetBidsKeys(store, collectionAddress, tokenID))

\* ------------------------------------------------ the other contracts
\* marketplace.ts: adminSendCoins has not been called
NoSendCoins == [caller |-> "", address |-> "", amount |-> 0, error |-> OK]

\* airdrop.ts after its constructor, holding coins MAS and pur PUR tokens
AirdropDeployed(coins, pur) ==
  [owner |-> "a1", chapter |-> <<"1">>, masAmount |-> 5, purAmount |-> 7,
   nftSC |-> "c1", claimed |-> EmptyStore, coins |-> coins, pur |-> pur,
   paid |-> EmptyStore]

\* part_000 after its constructor
NftDeployed(supply, price, start) ==
  [owner |-> "a1", totalSupply |-> supply, counter |-> 0,
   mintPrice |-> price, startTime |-> start, paused |-> FALSE,
   tokens |-> EmptyStore, coins |-> 0]

\* ---------------------------------------------------------------- Init
Init ==
  /\ collections = {}
  /\ marketplaceOwner = "a1"
  /\ marketplaceFee = 5
  /\ offers = EmptyStore
  /\ bids = EmptyStore
  /\ balance = DeployCoins
  /\ nftOwner = [c \in Collections |-> [t \in Tokens |-> "a2"]]
  /\ approvedForAll = [c \in Collections |-> {}]
  /\ now = genesisTimestamp
  /\ messages = {}
  /\ listings = 0
  /\ bidCalls = 0
  /\ events = 0
  /\ last = NoCall
  /\ transfers = {}
  /\ sendCoinsCall = NoSendCoins
  /\ airdrop = AirdropDeployed(0, 0)
  /\ nft = NftDeployed(0, 0, genesisTimestamp)

\* ------------------------------------------------------------ sellOffer
\* the fee of the deferred call is taken from the contract's coins
sellOfferTransfers(collectionAddress, nftTokenId) ==
  {Transfer(SELF, RAW_FEE, "message",
            _keyGenerator(collectionAddress, nftTokenId))}

\* a variant without the check that no offer is stored under the key
sellOfferErrNoHas(caller, collectionAddress, nftTokenId, price, expireIn) ==
  LET expirationTime == u64(now + expireIn)
  IN  IF ~isAddressEoa(caller)
        THEN "Smart contract address is not support."
      ELSE IF ~(expirationTime > now)
        THEN "The end time must be greater than the Context.timestamp()"
      ELSE IF ~_hasCollection(collectionAddress)
        THEN "Collection or Item not found in marketplace"
      ELSE IF _getNFTOwner(collectionAddress, nftTokenId) # caller
        THEN "You are not the owner of NFT"
      ELSE IF ~isApprovedForAll(collectionAddress, caller)
        THEN "Marketplace not approved for trading"
      ELSE IF ~transferCoinsAllowed(
                 sellOfferTransfers(collectionAddress, nftTokenId), 0)
        THEN "sendMessage failed"
      ELSE OK

\* a variant without the check of the end time
sellOfferErrNoEndTime(caller, collectionAddress, nftTokenId, price, expireIn) ==
  LET key == _keyGenerator(collectionAddress, nftTokenId)
  IN  IF ~isAddressEoa(caller)
        THEN "Smart contract address is not support."
      ELSE IF ~_hasCollection(collectionAddress)
        THEN "Collection or Item not found in marketplace"
      ELSE IF key \in DOMAIN offers
        THEN "Sell offer already exist"
      ELSE IF _getNFTOwner(collectionAddress, nftTokenId) # caller
        THEN "You are not the owner of NFT"
      ELSE IF ~isApprovedForAll(collectionAddress, caller)
        THEN "Marketplace not approved for trading"
      ELSE IF ~transferCoinsAllowed(
                 sellOfferTransfers(collectionAddress, nftTokenId), 0)
        THEN "sendMessage failed"
      ELSE OK

\* a variant without the check of the marketplace's approval
sellOfferErrNoAppr(caller, collectionAddress, nftTokenId, price, expireIn) ==
  LET expirationTime == u64(now + expireIn)
      key == _keyGenerator(collectionAddress, nftTokenId)
  IN  IF ~isAddressEoa(caller)
        THEN "Smart contract address is not support."
      ELSE IF ~(expirationTime > now)
        THEN "The end time must be greater than the Context.timestamp()"
      ELSE IF ~_hasCollection(collectionAddress)
        THEN "Collection or Item not found in marketplace"
      ELSE IF key \in DOMAIN offers
        THEN "Sell offer already exist"
      ELSE IF _getNFTOwner(collectionAddress, nftTokenId) # caller
        THEN "You are not the owner of NFT"
      ELSE IF ~transferCoinsAllowed(
                 sellOfferTransfers(collectionAddress, nftTokenId), 0)
        THEN "sendMessage failed"
      ELSE OK

sellOfferErr(caller, collectionAddress, nftTokenId, price, expireIn) ==
  LET expirationTime == u64(now + expireIn)
      key == _keyGenerator(collectionAddress, nftTokenId)
  IN  IF ~isAddressEoa(caller)
        THEN "Smart contract address is not support."
      ELSE IF ~(expirationTime > now)
        THEN "The end time must be greater than the Context.timestamp()"
      ELSE IF ~_hasCollection(collectionAddress)
        THEN "Collection or Item not found in marketplace"
      ELSE IF key \in DOMAIN offers
        THEN "Sell offer already exist"
      ELSE IF _getNFTOwner(collectionAddress, nftTokenId) # caller
        THEN "You are not the owner of NFT"
      ELSE IF ~isApprovedForAll(collectionAddress, caller)
        THEN "Marketplace not approved for trading"
      ELSE IF ~transferCoinsAllowed(
                 sellOfferTransfers(collectionAddress, nftTokenId), 0)
        THEN "sendMessage failed"
      ELSE OK

newSellOffer(caller, collectionAddress, nftTokenId, price, expireIn) ==
  [collectionAddress |-> collectionAddress,
   tokenId |-> toString(nftTokenId),
   price |-> price,
   creatorAddress |-> caller,
   expirationTime |-> u64(now + expireIn),
   createdTime |-> now]

\* a variant that stores the offer without scheduling its deletion
sellOfferNoMessage(caller, collectionAddress, nftTokenId, price, expireIn) ==
  /\ listings < MaxListings
  /\ sellOfferErr(caller, collectionAddress, nftTokenId, price, expireIn) = OK
  /\ offers' = set(offers, _keyGenerator(collectionAddress, nftTokenId),
                   newSellOffer(caller, collectionAddress, nftTokenId, price,
                                expireIn))
  /\ listings' = listings + 1
  /\ last' = Call("sellOffer", caller, collectionAddress, nftTokenId, "")
  /\ transfers' = sellOfferTransfers(collectionAddress, nftTokenId)
  /\ balance' = balance - total(transfers')
  /\ UNCHANGED <<collections, marketplaceOwner, marketplaceFee, bids,
                 nftOwner, approvedForAll, now, messages, bidCalls, events,
                 sendCoinsCall, airdrop, nft>>

sellOffer(caller, collectionAddress, nftTokenId, price, expireIn) ==
  /\ listings < MaxListings
  /\ sellOfferErr(caller, collectionAddress, nftTokenId, price, expireIn) = OK
  /\ offers' = set(offers, _keyGenerator(collectionAddress, nftTokenId),
                   newSellOffer(caller, collectionAddress, nftTokenId, price,
                                expireIn))
  /\ messages' = messages \cup
       {[collection |-> collectionAddress, token |-> nftTokenId,
         startPeriod |-> startPeriod(u64(now + expireIn)),
         startThread |-> startThread(u64(now + expireIn)),
         endPeriod |-> endPeriod(u64(now + expireIn)),
         endThread |-> endThread,
         id |-> listings]}
  /\ listings' = listings + 1
  /\ last' = Call("sellOffer", caller, collectionAddress, nftTokenId, "")
  /\ transfers' = sellOfferTransfers(collectionAddress, nftTokenId)
  /\ balance' = balance - total(transfers')
  /\ UNCHANGED <<collections, marketplaceOwner, marketplaceFee, bids,
                 nftOwner, approvedForAll, now, bidCalls, events,
                 sendCoinsCall, airdrop, nft>>

\* ------------------------------------------------------ removeSellOffer
removeSellOfferErr(caller, collectionAddress, nftTokenId) ==
  LET key == _keyGenerator(collectionAddress, nftTokenId)
  IN  IF ~_hasCollection(collectionAddress)
        THEN "Collection not found in marketplace"
      ELSE IF key \notin DOMAIN offers
        THEN "Sell offer doesnt exist"
      ELSE IF _getNFTOwner(collectionAddress, nftTokenId) # caller
        THEN "You are not the owner of NFT"
      ELSE IF ~transferCoinsAllowed(
                 resetBidsTransfers(bids, collectionAddress, nftTokenId, ""), 0)
        THEN "transferCoins failed"
      ELSE OK

removeSellOffer(caller, collectionAddress, nftTokenId) ==
  LET key == _keyGenerator(collectionAddress, nftTokenId)
      ts == resetBidsTransfers(bids, collectionAddress, nftTokenId, "")
  IN  /\ removeSellOfferErr(caller, collectionAddress, nftTokenId) = OK
      /\ transfers' = ts
      /\ balance' = balance - total(ts)
      /\ bids' = resetBids(bids, collectionAddress, nftTokenId)
      /\ offers' = del(offers, {key})
      /\ last' = Call("removeSellOffer", caller, collectionAddress,
                      nftTokenId, "")
      /\ UNCHANGED <<collections, marketplaceOwner, marketplaceFee, nftOwner,
                     approvedForAll, now, messages, listings, bidCalls,
                     events, sendCoinsCall, airdrop, nft>>

\* ------------------------------------------------------------- buyOffer
\* a variant that forwards the whole price to the seller
buyOfferTransfersFullPrice(collectionAddress, nftTokenId) ==
  LET key == _keyGenerator(collectionAddress, nftTokenId)
      owner == _getNFTOwner(collectionAddress, nftTokenId)
      feeAmount == calculateMarketplaceFee(offers[key].price)
  IN  {Transfer(collectionAddress, CALL_COINS, "call", key),
       Transfer(_marketplaceOwner, feeAmount, "fee", key),
       Transfer(owner, offers[key].price, "price", key)}
      \cup resetBidsTransfers(bids, collectionAddress, nftTokenId, "")

buyOfferTransfers(collectionAddress, nftTokenId) ==
  LET key == _keyGenerator(collectionAddress, nftTokenId)
      owner == _getNFTOwner(collectionAddress, nftTokenId)
      feeAmount == calculateMarketplaceFee(offers[key].price)
      remainingCoins == u64(offers[key].price - feeAmount)
  IN  {Transfer(collectionAddress, CALL_COINS, "call", key),
       Transfer(_marketplaceOwner, feeAmount, "fee", key),
       Transfer(owner, remainingCoins, "price", key)}
      \cup resetBidsTransfers(bids, collectionAddress, nftTokenId, "")

\* a variant whose expiry check rejects at the expiration time itself
buyOfferErrStrictExpiry(caller, collectionAddress, nftTokenId, coins) ==
  LET key == _keyGenerator(collectionAddress, nftTokenId)
      owner == _getNFTOwner(collectionAddress, nftTokenId)
  IN  IF ~_hasCollection(collectionAddress)
        THEN "Collection not found in marketplace"
      ELSE IF key \notin DOMAIN offers
        THEN "Sell offer doesnt exist"
      ELSE IF ~(now < offers[key].expirationTime)
        THEN "Sell offer has expired"
      ELSE IF ~(coins >= offers[key].price)
        THEN "Could not send enough coins to buy this NFT"
      ELSE IF ~isAddressEoa(caller)
        THEN "Smart contract cant buy."
      ELSE IF ~transferFromAllowed(collectionAddress, owner, nftTokenId)
        THEN "transferFrom failed"
      ELSE IF ~transferCoinsAllowed(
                 buyOfferTransfers(collectionAddress, nftTokenId), coins)
        THEN "transferCoins failed"
      ELSE OK

buyOfferErr(caller, collectionAddress, nftTokenId, coins) ==
  LET key == _keyGenerator(collectionAddress, nftTokenId)
      owner == _getNFTOwner(collectionAddress, nftTokenId)
  IN  IF ~_hasCollection(collectionAddress)
        THEN "Collection not found in marketplace"
      ELSE IF key \notin DOMAIN offers
        THEN "Sell offer doesnt exist"
      ELSE IF ~(now <= offers[key].expirationTime)
        THEN "Sell offer has expired"
      ELSE IF ~(coins >= offers[key].price)
        THEN "Could not send enough coins to buy this NFT"
      ELSE IF ~isAddressEoa(caller)
        THEN "Smart contract cant buy."
      ELSE IF ~transferFromAllowed(collectionAddress, owner, nftTokenId)
        THEN "transferFrom failed"
      ELSE IF ~transferCoinsAllowed(
                 buyOfferTransfers(collectionAddress, nftTokenId), coins)
        THEN "transferCoins failed"
      ELSE OK

\* a variant that leaves the offer stored
buyOfferKeepsOffer(caller, collectionAddress, nftTokenId, coins) ==
  LET ts == buyOfferTransfers(collectionAddress, nftTokenId)
  IN  /\ buyOfferErr(caller, collectionAddress, nftTokenId, coins) = OK
      /\ nftOwner' = transferFrom(collectionAddress, caller, nftTokenId)
      /\ transfers' = ts
      /\ balance' = balance + coins - total(ts)
      /\ bids' = resetBids(bids, collectionAddress, nftTokenId)
      /\ last' = Call("buyOffer", caller, collectionAddress, nftTokenId, "")
      /\ UNCHANGED <<collections, marketplaceOwner, marketplaceFee, offers,
                     approvedForAll, now, messages, listings, bidCalls,
                     events, sendCoinsCall, airdrop, nft>>

\* a variant that sends the coins above the price back to the buyer
buyOfferReturnsExcess(caller, collectionAddress, nftTokenId, coins) ==
  LET key == _keyGenerator(collectionAddress, nftTokenId)
      ts == buyOfferTransfers(collectionAddress, nftTokenId)
              \cup {Transfer(caller, coins - offers[key].price, "change", key)}
  IN  /\ buyOfferErr(caller, collectionAddress, nftTokenId, coins) = OK
      /\ nftOwner' = transferFrom(collectionAddress, caller, nftTokenId)
      /\ transfers' = ts
      /\ balance' = balance + coins - total(ts)
      /\ bids' = resetBids(bids, collectionAddress, nftTokenId)
      /\ offers' = del(offers, {key})
      /\ last' = Call("buyOffer", caller, collectionAddress, nftTokenId, "")
      /\ UNCHANGED <<collections, marketplaceOwner, marketplaceFee,
                     approvedForAll, now, messages, listings, bidCalls,
                     events, sendCoinsCall, airdrop, nft>>

buyOffer(caller, collectionAddress, nftTokenId, coins) ==
  LET key == _keyGenerator(collectionAddress, nftTokenId)
      ts == buyOfferTransfers(collectionAddress, nftTokenId)
  IN  /\ buyOfferErr(caller, collectionAddress, nftTokenId, coins) = OK
      /\ nftOwner' = transferFrom(collectionAddress, caller, nftTokenId)
      /\ transfers' = ts
      /\ balance' = balance + coins - total(ts)
      /\ bids' = resetBids(bids, collectionAddress, nftTokenId)
      /\ offers' = del(offers, {key})
      /\ last' = Call("buyOffer", caller, collectionAddress, nftTokenId, "")
      /\ UNCHANGED <<collections, marketplaceOwner, marketplaceFee,
                     approvedForAll, now, messages, listings, bidCalls,
                     events, sendCoinsCall, airdrop, nft>>

\* ------------------------------------------------ autonomousDeleteOffer
\* a variant without the assertion on the caller
autonomousDeleteOfferErrAnyCaller(caller, collectionAddress, tokenID) ==
  IF _keyGenerator(collectionAddress, tokenID) \notin DOMAIN offers
    THEN "sell offer not found"
  ELSE OK

autonomousDeleteOfferErr(caller, collectionAddress, tokenID) ==
  IF caller # SELF THEN "You are not root SC."
  ELSE IF _keyGenerator(collectionAddress, tokenID) \notin DOMAIN offers
    THEN "sell offer not found"
  ELSE OK

\* a variant that also resets the bids on the token, without refunds
autonomousDeleteOfferResetsBids(caller, collectionAddress, tokenID) ==
  LET due == {m \in messages : /\ m.collection = collectionAddress
                               /\ m.token = tokenID
                               /\ now >= startTime(m)}
      err == autonomousDeleteOfferErr(caller, collectionAddress, tokenID)
  IN  /\ IF caller = SELF
           THEN \E m \in due : messages' = messages \ {m}
           ELSE err = OK /\ messages' = messages
      /\ IF err = OK
           THEN /\ offers' = del(offers, {_keyGenerator(collectionAddress,
                                                        tokenID)})
                /\ bids' = resetBids(bids, collectionAddress, tokenID)
                /\ last' = Call("autonomousDeleteOffer", caller,
                                collectionAddress, tokenID, "")
           ELSE /\ offers' = offers
                /\ bids' = bids
                /\ last' = NoCall
      /\ transfers' = {}
      /\ UNCHANGED <<collections, marketplaceOwner, marketplaceFee, balance,
                     nftOwner, approvedForAll, now, listings, bidCalls,
                     events, sendCoinsCall, airdrop, nft>>

\* The entry point is exported, so any account can call it. The contract
\* calls itself only through the deferred message of sellOffer: the host
\* executes it once its start slot is reached and consumes the message
\* whether the handler succeeds or aborts.
autonomousDeleteOffer(caller, collectionAddress, tokenID) ==
  LET due == {m \in messages : /\ m.collection = collectionAddress
                               /\ m.token = tokenID
                               /\ now >= startTime(m)}
      err == autonomousDeleteOfferErr(caller, collectionAddress, tokenID)
  IN  /\ IF caller = SELF
           THEN \E m \in due : messages' = messages \ {m}
           ELSE err = OK /\ messages' = messages
      /\ IF err = OK
           THEN /\ offers' = del(offers, {_keyGenerator(collectionAddress,
                                                        tokenID)})
                /\ last' = Call("autonomousDeleteOffer", caller,
                                collectionAddress, tokenID, "")
           ELSE /\ offers' = offers
                /\ last' = NoCall
      /\ transfers' = {}
      /\ UNCHANGED <<collections, marketplaceOwner, marketplaceFee, bids,
                     balance, nftOwner, approvedForAll, now, listings,
                     bidCalls, events, sendCoinsCall, airdrop, nft>>

\* ------------------------------------------------------------- placeBid
\* the stored record; bidTime is written and never read, and is left out
Bid(bidder, bidAmount, bidTime) == [bidder |-> bidder, amount |-> bidAmount]

\* a variant that overwrites a stored bid without refunding it
placeBidTransfersNoRefund(caller, collectionAddress, nftTokenId) == {}

placeBidTransfers(caller, collectionAddress, nftTokenId) ==
  LET bidKey == _bidKeyGenerator(collectionAddress, nftTokenId, caller)
  IN  IF bidKey \in DOMAIN bids
        THEN {Transfer(bids[bidKey].bidder, bids[bidKey].amount, "refund",
                       bidKey)}
        ELSE {}

placeBidErr(caller, collectionAddress, nftTokenId, coins) ==
  IF ~_hasCollection(collectionAddress)
    THEN "Collection not found in marketplace"
  ELSE IF _keyGenerator(collectionAddress, nftTokenId) \notin DOMAIN offers
    THEN "Sell offer doesn't exist"
  ELSE IF ~transferCoinsAllowed(
             placeBidTransfers(caller, collectionAddress, nftTokenId), coins)
    THEN "transferCoins failed"
  ELSE OK

placeBid(caller, collectionAddress, nftTokenId, coins) ==
  LET bidKey == _bidKeyGenerator(collectionAddress, nftTokenId, caller)
      ts == placeBidTransfers(caller, collectionAddress, nftTokenId)
  IN  /\ bidCalls < MaxBids
      /\ bidCalls' = bidCalls + 1
      /\ placeBidErr(caller, collectionAddress, nftTokenId, coins) = OK
      /\ transfers' = ts
      /\ balance' = balance + coins - total(ts)
      /\ bids' = set(bids, bidKey, Bid(caller, coins, now))
      /\ last' = Call("placeBid", caller, collectionAddress, nftTokenId, "")
      /\ UNCHANGED <<collections, marketplaceOwner, marketplaceFee, offers,
                     nftOwner, approvedForAll, now, messages, listings,
                     events, sendCoinsCall, airdrop, nft>>

\* ------------------------------------------------------------ removeBid
removeBidErr(caller, collectionAddress, nftTokenId) ==
  LET bidKey == _bidKeyGenerator(collectionAddress, nftTokenId, caller)
  IN  IF bidKey \notin DOMAIN bids THEN "Bid not found"
      ELSE IF ~transferCoinsAllowed(
                 {Transfer(caller, bids[bidKey].amount, "refund", bidKey)}, 0)
        THEN "transferCoins failed"
      ELSE OK

\* a variant that deletes every bid on the token
removeBidClearsToken(caller, collectionAddress, nftTokenId) ==
  LET bidKey == _bidKeyGenerator(collectionAddress, nftTokenId, caller)
      ts == {Transfer(caller, bids[bidKey].amount, "refund", bidKey)}
  IN  /\ removeBidErr(caller, collectionAddress, nftTokenId) = OK
      /\ transfers' = ts
      /\ balance' = balance - total(ts)
      /\ bids' = resetBids(bids, collectionAddress, nftTokenId)
      /\ last' = Call("removeBid", caller, collectionAddress, nftTokenId, "")
      /\ UNCHANGED <<collections, marketplaceOwner, marketplaceFee, offers,
                     nftOwner, approvedForAll, now, messages, listings,
                     bidCalls, events, sendCoinsCall, airdrop, nft>>

\* a variant that refunds the bid and leaves its record stored
removeBidKeepsBid(caller, collectionAddress, nftTokenId) ==
  LET bidKey == _bidKeyGenerator(collectionAddress, nftTokenId, caller)
      ts == {Transfer(caller, bids[bidKey].amount, "refund", bidKey)}
  IN  /\ removeBidErr(caller, collectionAddress, nftTokenId) = OK
      /\ transfers' = ts
      /\ balance' = balance - total(ts)
      /\ last' = Call("removeBid", caller, collectionAddress, nftTokenId, "")
      /\ UNCHANGED <<collections, marketplaceOwner, marketplaceFee, offers,
                     bids, nftOwner, approvedForAll, now, messages, listings,
                     bidCalls, events, sendCoinsCall, airdrop, nft>>

removeBid(caller, collectionAddress, nftTokenId) ==
  LET bidKey == _bidKeyGenerator(collectionAddress, nftTokenId, caller)
      ts == {Transfer(caller, bids[bidKey].amount, "refund", bidKey)}
  IN  /\ removeBidErr(caller, collectionAddress, nftTokenId) = OK
      /\ transfers' = ts
      /\ balance' = balance - total(ts)
      /\ bids' = del(bids, {bidKey})
      /\ last' = Call("removeBid", caller, collectionAddress, nftTokenId, "")
      /\ UNCHANGED <<collections, marketplaceOwner, marketplaceFee, offers,
                     nftOwner, approvedForAll, now, messages, listings,
                     bidCalls, events, sendCoinsCall, airdrop, nft>>

\* ------------------------------------------------------------ acceptBid
acceptBidTransfers(collectionAddress, nftTokenId, bidder) ==
  LET bidKey == _bidKeyGenerator(collectionAddress, nftTokenId, bidder)
      owner == _getNFTOwner(collectionAddress, nftTokenId)
      feeAmount == calculateMarketplaceFee(bids[bidKey].amount)
      remainingAmount == u64(bids[bidKey].amount - feeAmount)
  IN  {Transfer(collectionAddress, CALL_COINS, "call", bidKey),
       Transfer(owner, remainingAmount, "price", bidKey)}
      \cup resetBidsTransfers(del(bids, {bidKey}), collectionAddress,
                              nftTokenId, bidder)

\* a variant in which the deletion of a missing offer key does nothing
acceptBidErrNoDelCheck(caller, collectionAddress, nftTokenId, bidder) ==
  LET bidKey == _bidKeyGenerator(collectionAddress, nftTokenId, bidder)
      owner == _getNFTOwner(collectionAddress, nftTokenId)
  IN  IF bidKey \notin DOMAIN bids THEN "Bid not found"
      ELSE IF owner # caller THEN "You are not the owner of the NFT"
      ELSE IF ~transferFromAllowed(collectionAddress, owner, nftTokenId)
        THEN "transferFrom failed"
      ELSE IF ~transferCoinsAllowed(
                 acceptBidTransfers(collectionAddress, nftTokenId, bidder), 0)
        THEN "transferCoins failed"
      ELSE OK

\* a variant without the check that the caller owns the token
acceptBidErrNoOwnerCheck(caller, collectionAddress, nftTokenId, bidder) ==
  LET bidKey == _bidKeyGenerator(collectionAddress, nftTokenId, bidder)
      sellOfferKey == _keyGenerator(collectionAddress, nftTokenId)
      owner == _getNFTOwner(collectionAddress, nftTokenId)
  IN  IF bidKey \notin DOMAIN bids THEN "Bid not found"
      ELSE IF ~transferFromAllowed(collectionAddress, owner, nftTokenId)
        THEN "transferFrom failed"
      ELSE IF ~transferCoinsAllowed(
                 acceptBidTransfers(collectionAddress, nftTokenId, bidder), 0)
        THEN "transferCoins failed"
      ELSE IF ~delAllowed(offers, sellOfferKey) THEN "del failed"
      ELSE OK

acceptBidErr(caller, collectionAddress, nftTokenId, bidder) ==
  LET bidKey == _bidKeyGenerator(collectionAddress, nftTokenId, bidder)
      sellOfferKey == _keyGenerator(collectionAddress, nftTokenId)
      owner == _getNFTOwner(collectionAddress, nftTokenId)
  IN  IF bidKey \notin DOMAIN bids THEN "Bid not found"
      ELSE IF owner # caller THEN "You are not the owner of the NFT"
      ELSE IF ~transferFromAllowed(collectionAddress, owner, nftTokenId)
        THEN "transferFrom failed"
      ELSE IF ~transferCoinsAllowed(
                 acceptBidTransfers(collectionAddress, nftTokenId, bidder), 0)
        THEN "transferCoins failed"
      ELSE IF ~delAllowed(offers, sellOfferKey) THEN "del failed"
      ELSE OK

acceptBid(caller, collectionAddress, nftTokenId, bidder) ==
  LET bidKey == _bidKeyGenerator(collectionAddress, nftTokenId, bidder)
      sellOfferKey == _keyGenerator(collectionAddress, nftTokenId)
      ts == acceptBidTransfers(collectionAddress, nftTokenId, bidder)
  IN  /\ acceptBidErr(caller, collectionAddress, nftTokenId, bidder) = OK
      /\ nftOwner' = transferFrom(collectionAddress, bidder, nftTokenId)
      /\ transfers' = ts
      /\ balance' = balance - total(ts)
      /\ bids' = resetBids(del(bids, {bidKey}), collectionAddress, nftTokenId)
      /\ offers' = del(offers, {sellOfferKey})
      /\ last' = Call("acceptBid", caller, collectionAddress, nftTokenId,
                      bidder)
      /\ UNCHANGED <<collections, marketplaceOwner, marketplaceFee,
                     approvedForAll, now, messages, listings, bidCalls,
                     events, sendCoinsCall, airdrop, nft>>

\* ---------------------------------------------------------------- admin
NotOwner == "The caller is not the owner of the contract"

adminAddCollectionErr(caller, collectionAddress) ==
  IF ~_onlyOwner(caller) THEN NotOwner ELSE OK

adminAddCollection(caller, collectionAddress) ==
  /\ adminAddCollectionErr(caller, collectionAddress) = OK
  /\ collections' = collections \cup {collectionAddress}
  /\ last' = Call("adminAddCollection", caller, collectionAddress, 0, "")
  /\ transfers' = {}
  /\ UNCHANGED <<marketplaceOwner, marketplaceFee, offers, bids, balance,
                 nftOwner, approvedForAll, now, messages, listings, bidCalls,
                 events, sendCoinsCall, airdrop, nft>>

adminDeleteCollectionErr(caller, collectionSCAddress) ==
  IF ~_onlyOwner(caller) THEN NotOwner
  ELSE IF collectionSCAddress \notin collections THEN "Collection is not found"
  ELSE OK

adminDeleteCollection(caller, collectionSCAddress) ==
  /\ events < MaxEvents
  /\ events' = events + 1
  /\ adminDeleteCollectionErr(caller, collectionSCAddress) = OK
  /\ collections' = collections \ {collectionSCAddress}
  /\ last' = Call("adminDeleteCollection", caller, collectionSCAddress, 0, "")
  /\ transfers' = {}
  /\ UNCHANGED <<marketplaceOwner, marketplaceFee, offers, bids, balance,
                 nftOwner, approvedForAll, now, messages, listings, bidCalls,
                 sendCoinsCall, airdrop, nft>>

adminChangeMarketplaceOwnerErr(caller, newAdmin) ==
  IF ~_onlyOwner(caller) THEN NotOwner ELSE OK

adminChangeMarketplaceOwner(caller, newAdmin) ==
  /\ newAdmin # marketplaceOwner
  /\ events < MaxEvents
  /\ events' = events + 1
  /\ adminChangeMarketplaceOwnerErr(caller, newAdmin) = OK
  /\ marketplaceOwner' = newAdmin
  /\ last' = Call("adminChangeMarketplaceOwner", caller, "", 0, newAdmin)
  /\ transfers' = {}
  /\ UNCHANGED <<collections, marketplaceFee, offers, bids, balance, nftOwner,
                 approvedForAll, now, messages, listings, bidCalls,
                 sendCoinsCall, airdrop, nft>>

adminSendCoinsErr(caller, address, amount) ==
  IF ~_onlyOwner(caller) THEN NotOwner
  ELSE IF ~transferCoinsAllowed({Transfer(address, amount, "send", <<>>)}, 0)
    THEN "transferCoins failed"
  ELSE OK

adminSendCoins(caller, address, amount) ==
  /\ events < MaxEvents
  /\ events' = events + 1
  /\ adminSendCoinsErr(caller, address, amount) = OK
  /\ transfers' = {Transfer(address, amount, "send", <<>>)}
  /\ balance' = balance - amount
  /\ last' = Call("adminSendCoins", caller, "", 0, address)
  /\ UNCHANGED <<collections, marketplaceOwner, marketplaceFee, offers, bids,
                 nftOwner, approvedForAll, now, messages, listings, bidCalls,
                 sendCoinsCall, airdrop, nft>>

\* a variant that asks for a registered collection, as removeSellOffer does
adminDeleteOfferErrRegistered(caller, collectionAddress, nftTokenId) ==
  IF ~_onlyOwner(caller) THEN NotOwner
  ELSE IF ~_hasCollection(collectionAddress)
    THEN "Collection not found in marketplace"
  ELSE IF ~transferCoinsAllowed(
             resetBidsTransfers(bids, collectionAddress, nftTokenId, ""), 0)
    THEN "transferCoins failed"
  ELSE IF ~delAllowed(offers, _keyGenerator(collectionAddress, nftTokenId))
    THEN "del failed"
  ELSE OK

adminDeleteOfferErr(caller, collectionAddress, nftTokenId) ==
  IF ~_onlyOwner(caller) THEN NotOwner
  ELSE IF ~transferCoinsAllowed(
             resetBidsTransfers(bids, collectionAddress, nftTokenId, ""), 0)
    THEN "transferCoins failed"
  ELSE IF ~delAllowed(offers, _keyGenerator(collectionAddress, nftTokenId))
    THEN "del failed"
  ELSE OK

adminDeleteOffer(caller, collectionAddress, nftTokenId) ==
  LET ts == resetBidsTransfers(bids, collectionAddress, nftTokenId, "")
  IN  /\ adminDeleteOfferErr(caller, collectionAddress, nftTokenId) = OK
      /\ transfers' = ts
      /\ balance' = balance - total(ts)
      /\ bids' = resetBids(bids, collectionAddress, nftTokenId)
      /\ offers' = del(offers, {_keyGenerator(collectionAddress, nftTokenId)})
      /\ last' = Call("adminDeleteOffer", caller, collectionAddress,
                      nftTokenId, "")
      /\ UNCHANGED <<collections, marketplaceOwner, marketplaceFee, nftOwner,
                     approvedForAll, now, messages, listings, bidCalls,
                     events, sendCoinsCall, airdrop, nft>>

adminRemoveBidErr(caller, collectionAddress, nftTokenId, bidder) ==
  LET bidKey == _bidKeyGenerator(collectionAddress, nftTokenId, bidder)
  IN  IF ~_onlyOwner(caller) THEN NotOwner
      ELSE IF bidKey \notin DOMAIN bids THEN "Bid not found"
      ELSE IF ~transferCoinsAllowed(
                 {Transfer(bidder, bids[bidKey].amount, "refund", bidKey)}, 0)
        THEN "transferCoins failed"
      ELSE OK

adminRemoveBid(caller, collectionAddress, nftTokenId, bidder) ==
  LET bidKey == _bidKeyGenerator(collectionAddress, nftTokenId, bidder)
      ts == {Transfer(bidder, bids[bidKey].amount, "refund", bidKey)}
  IN  /\ adminRemoveBidErr(caller, collectionAddress, nftTokenId, bidder) = OK
      /\ transfers' = ts
      /\ balance' = balance - total(ts)
      /\ bids' = del(bids, {bidKey})
      /\ last' = Call("adminRemoveBid", caller, collectionAddress, nftTokenId,
                      bidder)
      /\ UNCHANGED <<collections, marketplaceOwner, marketplaceFee, offers,
                     nftOwner, approvedForAll, now, messages, listings,
                     bidCalls, events, sendCoinsCall, airdrop, nft>>

adminChangeMarketplaceFeeErr(caller, newFee) ==
  IF ~_onlyOwner(caller) THEN NotOwner ELSE OK

adminChangeMarketplaceFee(caller, newFee) ==
  /\ newFee # marketplaceFee
  /\ events < MaxEvents
  /\ events' = events + 1
  /\ adminChangeMarketplaceFeeErr(caller, newFee) = OK
  /\ marketplaceFee' = newFee
  /\ last' = Call("adminChangeMarketplaceFee", caller, "", 0, "")
  /\ transfers' = {}
  /\ UNCHANGED <<collections, marketplaceOwner, offers, bids, balance,
                 nftOwner, approvedForAll, now, messages, listings, bidCalls,
                 sendCoinsCall, airdrop, nft>>

\* setBytecode replaces the code of the contract at the end of the call; the
\* bytecode installed here is the one that is running, so the entry points
\* stay as they are
upgradeSmartContractErr(caller, newBytecode) ==
  IF ~_onlyOwner(caller) THEN NotOwner ELSE OK

upgradeSmartContract(caller, newBytecode) ==
  /\ events < MaxEvents
  /\ events' = events + 1
  /\ upgradeSmartContractErr(caller, newBytecode) = OK
  /\ last' = Call("upgradeSmartContract", caller, "", 0, "")
  /\ transfers' = {}
  /\ UNCHANGED <<collections, marketplaceOwner, marketplaceFee, offers, bids,
                 balance, nftOwner, approvedForAll, now, messages, listings,
                 bidCalls, sendCoinsCall, airdrop, nft>>

\* ------------------------------------------------------ the environment
\* the owner of a token moves it in the collection contract, off-marketplace
ownerTransfer(collectionAddress, tokenID, to) ==
  /\ events < MaxEvents
  /\ events' = events + 1
  /\ to # nftOwner[collectionAddress][tokenID]
  /\ nftOwner' = transferFrom(collectionAddress, to, tokenID)
  /\ last' = NoCall
  /\ transfers' = {}
  /\ UNCHANGED <<collections, marketplaceOwner, marketplaceFee, offers, bids,
                 balance, approvedForAll, now, messages, listings, bidCalls,
                 sendCoinsCall, airdrop, nft>>

\* ---------------------------------------------------------- receiveCoins
receiveCoins(caller, coins) ==
  /\ events < MaxEvents
  /\ events' = events + 1
  /\ balance' = balance + coins
  /\ last' = Call("receiveCoins", caller, "", 0, "")
  /\ transfers' = {}
  /\ UNCHANGED <<collections, marketplaceOwner, marketplaceFee, offers, bids,
                 nftOwner, approvedForAll, now, messages, listings, bidCalls,
                 sendCoinsCall, airdrop, nft>>

\* an account grants or revokes the marketplace as operator of its tokens
setApprovalForAll(collectionAddress, owner, approved) ==
  /\ \E t \in Tokens : nftOwner[collectionAddress][t] = owner
  /\ approvedForAll' =
       [approvedForAll EXCEPT ![collectionAddress] =
          IF approved THEN @ \cup {owner} ELSE @ \ {owner}]
  /\ approvedForAll' # approvedForAll
  /\ last' = NoCall
  /\ transfers' = {}
  /\ UNCHANGED <<collections, marketplaceOwner, marketplaceFee, offers, bids,
                 balance, nftOwner, now, messages, listings, bidCalls, events,
                 sendCoinsCall, airdrop, nft>>

\* the clock is observed only through stored offers and pending messages
Tick ==
  /\ now < genesisTimestamp + MaxTime * (t0 \div thread_count)
  /\ DOMAIN offers # {} \/ messages # {}
  /\ now' = now + (t0 \div thread_count)
  /\ last' = NoCall
  /\ transfers' = {}
  /\ UNCHANGED <<collections, marketplaceOwner, marketplaceFee, offers, bids,
                 balance, nftOwner, approvedForAll, messages, listings,
                 bidCalls, events, sendCoinsCall, airdrop, nft>>

\* ----------------------------------------------------------------- Next
Next ==
  \/ \E a \in Addrs, c \in Collections, t \in Tokens, p \in Prices,
        e \in ExpireIns : sellOffer(a, c, t, p, e)
  \/ \E a \in Addrs, c \in Collections, t \in Tokens : removeSellOffer(a, c, t)
  \/ \E a \in Addrs, c \in Collections, t \in Tokens, v \in BuyAmounts :
        buyOffer(a, c, t, v)
  \/ \E a \in Addrs \cup {SELF}, c \in Collections, t \in Tokens :
       autonomousDeleteOffer(a, c, t)
  \/ \E a \in Addrs, c \in Collections, t \in Tokens, v \in BidAmounts :
        placeBid(a, c, t, v)
  \/ \E a \in Addrs, c \in Collections, t \in Tokens : removeBid(a, c, t)
  \/ \E a \in Addrs, c \in Collections, t \in Tokens, b \in Addrs :
        acceptBid(a, c, t, b)
  \/ \E a \in Addrs, c \in Collections : adminAddCollection(a, c)
  \/ \E a \in Addrs, c \in Collections : adminDeleteCollection(a, c)
  \/ \E a \in Addrs, n \in NewOwners : adminChangeMarketplaceOwner(a, n)
  \/ \E a \in Addrs, to \in Receivers, v \in SendAmounts :
        adminSendCoins(a, to, v)
  \/ \E a \in Addrs, c \in Collections, t \in Tokens : adminDeleteOffer(a, c, t)
  \/ \E a \in Addrs, c \in Collections, t \in Tokens, b \in Addrs :
        adminRemoveBid(a, c, t, b)
  \/ \E a \in Addrs, f \in Fees : adminChangeMarketplaceFee(a, f)
  \/ \E a \in Addrs, b \in Bytecodes : upgradeSmartContract(a, b)
  \/ \E c \in Collections, t \in Tokens, to \in NewOwners :
        ownerTransfer(c, t, to)
  \/ \E c \in Collections, a \in Addrs, b \in Approvals :
        setApprovalForAll(c, a, b)
  \/ \E a \in Addrs, v \in TopUps : receiveCoins(a, v)
  \/ Tick

Spec == Init /\ [][Next]_vars

\* ------------------------------------------------- the bid store alone
\* The listing, bidding and settlement entry points with a wider choice of
\* bids, in a contract deployed with the coins of its listings' deferred
\* calls only; the owner's configuration calls other than the collection
\* registry are left out, so adminSendCoins is never used.
WideBidAmounts == {100, 150, CALL_COINS}

InitBids ==
  /\ collections = {}
  /\ marketplaceOwner = "a1"
  /\ marketplaceFee = 5
  /\ offers = EmptyStore
  /\ bids = EmptyStore
  /\ balance = MaxListings * RAW_FEE
  /\ nftOwner = [c \in Collections |-> [t \in Tokens |-> "a2"]]
  /\ approvedForAll = [c \in Collections |-> {}]
  /\ now = genesisTimestamp
  /\ messages = {}
  /\ listings = 0
  /\ bidCalls = 0
  /\ events = 0
  /\ last = NoCall
  /\ transfers = {}
  /\ sendCoinsCall = NoSendCoins
  /\ airdrop = AirdropDeployed(0, 0)
  /\ nft = NftDeployed(0, 0, genesisTimestamp)

NextBids ==
  \/ \E a \in Addrs, c \in Collections, t \in Tokens, p \in Prices,
        e \in ExpireIns : sellOffer(a, c, t, p, e)
  \/ \E a \in Addrs, c \in Collections, t \in Tokens : removeSellOffer(a, c, t)
  \/ \E a \in Addrs, c \in Collections, t \in Tokens, v \in BuyAmounts :
        buyOffer(a, c, t, v)
  \/ \E a \in Addrs \cup {SELF}, c \in Collections, t \in Tokens :
       autonomousDeleteOffer(a, c, t)
  \/ \E a \in Addrs, c \in Collections, t \in Tokens, v \in WideBidAmounts :
        placeBid(a, c, t, v)
  \/ \E a \in Addrs, c \in Collections, t \in Tokens : removeBid(a, c, t)
  \/ \E a \in Addrs, c \in Collections, t \in Tokens, b \in Addrs :
        acceptBid(a, c, t, b)
  \/ \E a \in Addrs, c \in Collections : adminAddCollection(a, c)
  \/ \E a \in Addrs, c \in Collections : adminDeleteCollection(a, c)
  \/ \E c \in Collections, a \in Addrs, b \in Approvals :
        setApprovalForAll(c, a, b)
  \/ Tick

SpecBids == InitBids /\ [][NextBids]_vars

\* ------------------------------------------------------- the escrow
\* The entry points through which coins enter and leave the contract, with
\* payments above the price and bids of two amounts; the clock stands still
\* and adminSendCoins is left out.
ExcessBuyAmounts == {100, 150, 200}

TwoBidAmounts == {100, 150}

NextEscrow ==
  \/ \E a \in Addrs, c \in Collections, t \in Tokens, p \in Prices,
        e \in ExpireIns : sellOffer(a, c, t, p, e)
  \/ \E a \in Addrs, c \in Collections, t \in Tokens : removeSellOffer(a, c, t)
  \/ \E a \in Addrs, c \in Collections, t \in Tokens, v \in ExcessBuyAmounts :
        buyOffer(a, c, t, v)
  \/ \E a \in Addrs, c \in Collections, t \in Tokens, v \in TwoBidAmounts :
        placeBid(a, c, t, v)
  \/ \E a \in Addrs, c \in Collections, t \in Tokens : removeBid(a, c, t)
  \/ \E a \in Addrs, c \in Collections, t \in Tokens, b \in Addrs :
        acceptBid(a, c, t, b)
  \/ \E a \in Addrs, c \in Collections : adminAddCollection(a, c)
  \/ \E a \in Addrs, c \in Collections, t \in Tokens :
        adminDeleteOffer(a, c, t)
  \/ \E a \in Addrs, c \in Collections, t \in Tokens, b \in Addrs :
        adminRemoveBid(a, c, t, b)
  \/ \E a \in Addrs, f \in Fees : adminChangeMarketplaceFee(a, f)
  \/ \E c \in Collections, a \in Addrs, b \in Approvals :
        setApprovalForAll(c, a, b)

SpecEscrow == Init /\ [][NextEscrow]_vars

\* ------------------------------------------------- the expiry scheduler
\* Listings, sales, removals and the deferred deletions, with the host's
\* scheduler and the clock running fairly: a deferred call whose start slot
\* is reached is eventually executed.  Offers are listed only with an expiry
\* the clock of the model can reach.
NextExpiry ==
  \/ \E a \in Addrs, c \in Collections, t \in Tokens, p \in Prices,
        e \in ExpireIns :
          /\ now + e <= genesisTimestamp + MaxTime * (t0 \div thread_count)
          /\ sellOffer(a, c, t, p, e)
  \/ \E a \in Addrs, c \in Collections, t \in Tokens : removeSellOffer(a, c, t)
  \/ \E a \in Addrs, c \in Collections, t \in Tokens, v \in BuyAmounts :
        buyOffer(a, c, t, v)
  \/ \E a \in Addrs \cup {SELF}, c \in Collections, t \in Tokens :
       autonomousDeleteOffer(a, c, t)
  \/ \E a \in Addrs, c \in Collections, t \in Tokens, v \in BidAmounts :
        placeBid(a, c, t, v)
  \/ \E a \in Addrs, c \in Collections, t \in Tokens, b \in Addrs :
        acceptBid(a, c, t, b)
  \/ \E a \in Addrs, c \in Collections : adminAddCollection(a, c)
  \/ \E a \in Addrs, c \in Collections : adminDeleteCollection(a, c)
  \/ \E a \in Addrs, c \in Collections, t \in Tokens : adminDeleteOffer(a, c, t)
  \/ \E c \in Collections, a \in Addrs, b \in Approvals :
        setApprovalForAll(c, a, b)
  \/ Tick

SchedulerFairness ==
  /\ WF_vars(Tick)
  /\ \A c \in Collections, t \in Tokens :
       WF_vars(autonomousDeleteOffer(SELF, c, t))

SpecExpiry == Init /\ [][NextExpiry]_vars /\ SchedulerFairness

\* the same steps with no assumption on the scheduler: a deferred call may
\* stay unexecuted for ever
SpecListing == Init /\ [][NextExpiry]_vars

\* ------------------------------------------------------ the admin calls
\* Every owner-gated entry point, with the listings and bids they act on.
NextAdmin ==
  \/ \E a \in Addrs, c \in Collections, t \in Tokens, p \in Prices,
        e \in ExpireIns : sellOffer(a, c, t, p, e)
  \/ \E a \in Addrs, c \in Collections, t \in Tokens, v \in BidAmounts :
        placeBid(a, c, t, v)
  \/ \E a \in Addrs, c \in Collections : adminAddCollection(a, c)
  \/ \E a \in Addrs, c \in Collections : adminDeleteCollection(a, c)
  \/ \E a \in Addrs, n \in NewOwners : adminChangeMarketplaceOwner(a, n)
  \/ \E a \in Addrs, to \in Receivers, v \in SendAmounts :
        adminSendCoins(a, to, v)
  \/ \E a \in Addrs, c \in Collections, t \in Tokens : adminDeleteOffer(a, c, t)
  \/ \E a \in Addrs, c \in Collections, t \in Tokens, b \in Addrs :
        adminRemoveBid(a, c, t, b)
  \/ \E a \in Addrs, f \in Fees : adminChangeMarketplaceFee(a, f)
  \/ \E a \in Addrs, b \in Bytecodes : upgradeSmartContract(a, b)
  \/ \E c \in Collections, a \in Addrs, b \in Approvals :
        setApprovalForAll(c, a, b)

SpecAdmin == Init /\ [][NextAdmin]_vars

\* ------------------------------------------------ the slot of the call
\* Listings at timestamps in milliseconds, on and off the slot boundaries
\* and at the end of the word's range, with periods of expiry that are zero,
\* shorter and longer than a slot and a period, and that wrap the sum.
Distances == {0, 1, 499, 500, 15999, 16000, 16500, 47501, U64 - genesisTimestamp - 1}

Timestamps == {genesisTimestamp + d : d \in Distances}

WideExpireIns == {0, 1, 499, 500, 15501, 16000, 31999, U64 - 500, U64 - 1}

InitSchedule ==
  /\ collections = {}
  /\ marketplaceOwner = "a1"
  /\ marketplaceFee = 5
  /\ offers = EmptyStore
  /\ bids = EmptyStore
  /\ balance = DeployCoins
  /\ nftOwner = [c \in Collections |-> [t \in Tokens |-> "a2"]]
  /\ approvedForAll = [c \in Collections |-> {}]
  /\ now \in Timestamps
  /\ messages = {}
  /\ listings = 0
  /\ bidCalls = 0
  /\ events = 0
  /\ last = NoCall
  /\ transfers = {}
  /\ sendCoinsCall = NoSendCoins
  /\ airdrop = AirdropDeployed(0, 0)
  /\ nft = NftDeployed(0, 0, genesisTimestamp)

NextSchedule ==
  \/ \E a \in Addrs, c \in Collections, t \in Tokens, p \in Prices,
        e \in WideExpireIns : sellOffer(a, c, t, p, e)
  \/ \E a \in Addrs, c \in Collections, t \in Tokens : removeSellOffer(a, c, t)
  \/ \E a \in Addrs \cup {SELF}, c \in Collections, t \in Tokens :
       autonomousDeleteOffer(a, c, t)
  \/ \E a \in Addrs, c \in Collections : adminAddCollection(a, c)
  \/ \E c \in Collections, a \in Addrs, b \in Approvals :
        setApprovalForAll(c, a, b)
  \/ Tick

SpecSchedule == InitSchedule /\ [][NextSchedule]_vars

\* ------------------------------- marketplace.ts: the checked withdrawal
\* The marketplace of marketplace.ts reads its balance before it sends
\* coins.  Here a call is a step whether it succeeds or aborts, and the
\* step records the call and how it ended; an aborted call changes nothing
\* else.
NoFunds == "No funds were found for the amount you wanted to send."

DeployBalances == {0, 100}

CheckedSendAmounts == {0, 50, 100, 150}

adminSendCoinsCheckedErr(caller, address, amount) ==
  IF ~_onlyOwner(caller) THEN NotOwner
  ELSE IF ~(balance < amount) THEN NoFunds
  ELSE IF ~transferCoinsAllowed({Transfer(address, amount, "send", <<>>)}, 0)
    THEN "transferCoins failed"
  ELSE OK

adminSendCoinsChecked(caller, address, amount) ==
  LET error == adminSendCoinsCheckedErr(caller, address, amount)
  IN  /\ sendCoinsCall' = [caller |-> caller, address |-> address,
                           amount |-> amount, error |-> error]
      /\ balance' = IF error = OK THEN balance - amount ELSE balance
      /\ transfers' = IF error = OK
                        THEN {Transfer(address, amount, "send", <<>>)}
                        ELSE {}
      /\ last' = NoCall
      /\ UNCHANGED <<collections, marketplaceOwner, marketplaceFee, offers,
                     bids, nftOwner, approvedForAll, now, messages, listings,
                     bidCalls, events, airdrop, nft>>

InitSendCoins ==
  /\ collections = {}
  /\ marketplaceOwner = "a1"
  /\ marketplaceFee = 5
  /\ offers = EmptyStore
  /\ bids = EmptyStore
  /\ balance \in DeployBalances
  /\ nftOwner = [c \in Collections |-> [t \in Tokens |-> "a2"]]
  /\ approvedForAll = [c \in Collections |-> {}]
  /\ now = genesisTimestamp
  /\ messages = {}
  /\ listings = 0
  /\ bidCalls = 0
  /\ events = 0
  /\ last = NoCall
  /\ transfers = {}
  /\ sendCoinsCall = NoSendCoins
  /\ airdrop = AirdropDeployed(0, 0)
  /\ nft = NftDeployed(0, 0, genesisTimestamp)

NextSendCoins ==
  \/ \E a \in Addrs, r \in Addrs, v \in CheckedSendAmounts :
        adminSendCoinsChecked(a, r, v)
  \/ \E a \in Addrs, b \in NewOwners : adminChangeMarketplaceOwner(a, b)
  \/ \E a \in Addrs, v \in TopUps : receiveCoins(a, v)

SpecSendCoins == InitSendCoins /\ [][NextSendCoins]_vars

\* ----------------------------------------------------------- airdrop.ts
\* The airdrop contract pays a fixed amount of MAS and of PUR once per
\* chapter and token of the NFT contract it names.  The NFT contract is the
\* collection of nftOwner; the token contract's ledger is the field pur, in
\* whole tokens.  The field paid counts, per chapter, token and kind, the
\* claims that succeeded.
Chapters == {<<"1">>, <<"1", "_", "1">>}

AirdropCoins == {10, 20}

AirdropPur == {14}

AlreadyClaimed == "Token ID already claimed."

NotTokenOwner == "Caller does not own token ID"

onlyOwner(caller) == caller = airdrop.owner

getNFTOwner(nftSC, tokenID) == nftOwner[nftSC][tokenID]

generateClaimKey(prefix, tokenID) ==
  airdrop.chapter \o <<"_">> \o toString(tokenID) \o <<"_", prefix>>

checkTokenOwnership(caller, nftSC, tokenID) ==
  getNFTOwner(nftSC, tokenID) = caller

getAmountMAS == airdrop.masAmount

getAmountPUR == airdrop.purAmount

hasClaimedMAS(tokenID) ==
  generateClaimKey("MAS", tokenID) \in DOMAIN airdrop.claimed

hasClaimedPUR(tokenID) ==
  generateClaimKey("PUR", tokenID) \in DOMAIN airdrop.claimed

\* one more successful claim of a kind for the chapter and token
countClaim(paid, chapter, tokenID, prefix) ==
  LET id == <<chapter, tokenID, prefix>>
  IN  set(paid, id, IF id \in DOMAIN paid THEN paid[id] + 1 ELSE 1)

\* a variant without the check that the claim key is free
claimMASErrNoClaimCheck(caller, tokenID) ==
  IF ~checkTokenOwnership(caller, airdrop.nftSC, tokenID) THEN NotTokenOwner
  ELSE IF ~(getAmountMAS <= airdrop.coins) THEN "transferCoins failed"
  ELSE OK

claimMASErr(caller, tokenID) ==
  IF ~checkTokenOwnership(caller, airdrop.nftSC, tokenID) THEN NotTokenOwner
  ELSE IF generateClaimKey("MAS", tokenID) \in DOMAIN airdrop.claimed
    THEN AlreadyClaimed
  ELSE IF ~(getAmountMAS <= airdrop.coins) THEN "transferCoins failed"
  ELSE OK

claimMAS(caller, tokenID) ==
  LET key == generateClaimKey("MAS", tokenID)
      masAmount == getAmountMAS
  IN  /\ claimMASErr(caller, tokenID) = OK
      /\ airdrop' = [airdrop EXCEPT
           !.coins = @ - masAmount,
           !.claimed = set(@, key, toString(masAmount)),
           !.paid = countClaim(@, airdrop.chapter, tokenID, "MAS")]
      /\ transfers' = {Transfer(caller, masAmount, "claim", key)}
      /\ last' = Call("claimMAS", caller, airdrop.nftSC, tokenID, "")
      /\ UNCHANGED <<collections, marketplaceOwner, marketplaceFee, offers,
                     bids, balance, nftOwner, approvedForAll, now, messages,
                     listings, bidCalls, events, sendCoinsCall, nft>>

claimPURErr(caller, tokenID) ==
  IF ~checkTokenOwnership(caller, airdrop.nftSC, tokenID) THEN NotTokenOwner
  ELSE IF generateClaimKey("PUR", tokenID) \in DOMAIN airdrop.claimed
    THEN AlreadyClaimed
  ELSE IF ~(getAmountPUR <= airdrop.pur) THEN "transfer failed"
  ELSE OK

claimPUR(caller, tokenID) ==
  LET key == generateClaimKey("PUR", tokenID)
      purAmount == getAmountPUR
  IN  /\ claimPURErr(caller, tokenID) = OK
      /\ airdrop' = [airdrop EXCEPT
           !.pur = @ - purAmount,
           !.claimed = set(@, key, toString(purAmount)),
           !.paid = countClaim(@, airdrop.chapter, tokenID, "PUR")]
      /\ transfers' = {}
      /\ last' = Call("claimPUR", caller, airdrop.nftSC, tokenID, "")
      /\ UNCHANGED <<collections, marketplaceOwner, marketplaceFee, offers,
                     bids, balance, nftOwner, approvedForAll, now, messages,
                     listings, bidCalls, events, sendCoinsCall, nft>>

updateChapterErr(caller, newChapter) ==
  IF ~onlyOwner(caller) THEN "Caller is not the contract owner." ELSE OK

updateChapter(caller, newChapter) ==
  /\ updateChapterErr(caller, newChapter) = OK
  /\ airdrop' = [airdrop EXCEPT !.chapter = newChapter]
  /\ airdrop' # airdrop
  /\ transfers' = {}
  /\ last' = Call("updateChapter", caller, "", 0, "")
  /\ UNCHANGED <<collections, marketplaceOwner, marketplaceFee, offers, bids,
                 balance, nftOwner, approvedForAll, now, messages, listings,
                 bidCalls, events, sendCoinsCall, nft>>

InitAirdrop ==
  /\ collections = {}
  /\ marketplaceOwner = "a1"
  /\ marketplaceFee = 5
  /\ offers = EmptyStore
  /\ bids = EmptyStore
  /\ balance = DeployCoins
  /\ nftOwner = [c \in Collections |-> [t \in Tokens |-> "a2"]]
  /\ approvedForAll = [c \in Collections |-> {}]
  /\ now = genesisTimestamp
  /\ messages = {}
  /\ listings = 0
  /\ bidCalls = 0
  /\ events = 0
  /\ last = NoCall
  /\ transfers = {}
  /\ sendCoinsCall = NoSendCoins
  /\ airdrop \in {AirdropDeployed(c, p) : c \in AirdropCoins, p \in AirdropPur}
  /\ nft = NftDeployed(0, 0, genesisTimestamp)

NextAirdrop ==
  \/ \E a \in Addrs, t \in Tokens : claimMAS(a, t)
  \/ \E a \in Addrs, t \in Tokens : claimPUR(a, t)
  \/ \E a \in Addrs, ch \in Chapters : updateChapter(a, ch)
  \/ \E c \in Collections, t \in Tokens, a \in NewOwners :
        ownerTransfer(c, t, a)

SpecAirdrop == InitAirdrop /\ [][NextAirdrop]_vars

\* ----------------------------------------------- part_000: the mint
\* The collection contract sells its tokens one by one: mint takes the next
\* counter value as the token's identifier.  The clock of this contract
\* advances by slots as the marketplace's does.
MaxSupply == 2         \* largest totalSupply a collection is deployed with

MintPrices == {0, 100}

MintCoins == {0, 100, 150}

StartTimes == {genesisTimestamp, genesisTimestamp + (t0 \div thread_count)}

Pauses == {TRUE, FALSE}

totalSupply == nft.totalSupply

currentSupply == nft.counter

_onlyOwnerOfCollection(caller) == caller = nft.owner

\* NFT-internals: the token gets its first owner
_update(tokens, to, tokenId) == set(tokens, tokenId, to)

\* a variant without the check of the supply
mintErrNoSupplyCheck(caller, mintAddress, coins) ==
  IF nft.paused THEN "Mint process paused"
  ELSE IF ~(now >= nft.startTime) THEN "Mint has not started yet"
  ELSE IF ~(coins >= nft.mintPrice)
    THEN "Not enough sent coins to mint this NFT"
  ELSE OK

mintErr(caller, mintAddress, coins) ==
  IF ~(totalSupply > currentSupply) THEN "Max supply reached"
  ELSE IF nft.paused THEN "Mint process paused"
  ELSE IF ~(now >= nft.startTime) THEN "Mint has not started yet"
  ELSE IF ~(coins >= nft.mintPrice)
    THEN "Not enough sent coins to mint this NFT"
  ELSE OK

mint(caller, mintAddress, coins) ==
  LET increment == currentSupply + 1
  IN  /\ mintErr(caller, mintAddress, coins) = OK
      /\ nft' = [nft EXCEPT !.counter = increment,
                            !.tokens = _update(@, mintAddress, increment),
                            !.coins = @ + coins]
      /\ transfers' = {}
      /\ last' = Call("mint", caller, "", increment, mintAddress)
      /\ UNCHANGED <<collections, marketplaceOwner, marketplaceFee, offers,
                     bids, balance, nftOwner, approvedForAll, now, messages,
                     listings, bidCalls, events, sendCoinsCall, airdrop>>

_changePauseStatusErr(caller, pause) ==
  IF ~_onlyOwnerOfCollection(caller) THEN "only sc owner can access" ELSE OK

_changePauseStatus(caller, pause) ==
  /\ _changePauseStatusErr(caller, pause) = OK
  /\ nft' = [nft EXCEPT !.paused = pause]
  /\ nft' # nft
  /\ transfers' = {}
  /\ last' = Call("_changePauseStatus", caller, "", 0, "")
  /\ UNCHANGED <<collections, marketplaceOwner, marketplaceFee, offers, bids,
                 balance, nftOwner, approvedForAll, now, messages, listings,
                 bidCalls, events, sendCoinsCall, airdrop>>

_changeMintPriceErr(caller, newPrice) ==
  IF ~_onlyOwnerOfCollection(caller) THEN "only sc owner can access" ELSE OK

_changeMintPrice(caller, newPrice) ==
  /\ _changeMintPriceErr(caller, newPrice) = OK
  /\ nft' = [nft EXCEPT !.mintPrice = newPrice]
  /\ nft' # nft
  /\ transfers' = {}
  /\ last' = Call("_changeMintPrice", caller, "", 0, "")
  /\ UNCHANGED <<collections, marketplaceOwner, marketplaceFee, offers, bids,
                 balance, nftOwner, approvedForAll, now, messages, listings,
                 bidCalls, events, sendCoinsCall, airdrop>>

\* a slot passes
TickMint ==
  /\ now < genesisTimestamp + MaxTime * (t0 \div thread_count)
  /\ now' = now + (t0 \div thread_count)
  /\ last' = NoCall
  /\ transfers' = {}
  /\ UNCHANGED <<collections, marketplaceOwner, marketplaceFee, offers, bids,
                 balance, nftOwner, approvedForAll, messages, listings,
                 bidCalls, events, sendCoinsCall, airdrop, nft>>

InitMint ==
  /\ collections = {}
  /\ marketplaceOwner = "a1"
  /\ marketplaceFee = 5
  /\ offers = EmptyStore
  /\ bids = EmptyStore
  /\ balance = DeployCoins
  /\ nftOwner = [c \in Collections |-> [t \in Tokens |-> "a2"]]
  /\ approvedForAll = [c \in Collections |-> {}]
  /\ now = genesisTimestamp
  /\ messages = {}
  /\ listings = 0
  /\ bidCalls = 0
  /\ events = 0
  /\ last = NoCall
  /\ transfers = {}
  /\ sendCoinsCall = NoSendCoins
  /\ airdrop = AirdropDeployed(0, 0)
  /\ nft \in {NftDeployed(s, p, st) :
                s \in 0..MaxSupply, p \in MintPrices, st \in StartTimes}

NextMint ==
  \/ \E a \in Addrs, to \in Addrs, v \in MintCoins : mint(a, to, v)
  \/ \E a \in Addrs, b \in Pauses : _changePauseStatus(a, b)
  \/ \E a \in Addrs, p \in MintPrices : _changeMintPrice(a, p)
  \/ TickMint

SpecMint == InitMint /\ [][NextMint]_vars

\* ======================================================================
\* Properties
\* ======================================================================
offerKeys == {_keyGenerator(c, t) : c \in Collections, t \in Tokens}

\* the bids placed on exactly (collectionAddress, tokenID)
bidsOn(store, collectionAddress, tokenID) ==
  {k \in DOMAIN store :
     \E b \in Addrs : k = _bidKeyGenerator(collectionAddress, tokenID, b)}

\* the coins a call paid out as the proceeds of a sale
salePayouts(ts) == {x \in ts : x.kind \in {"price", "fee"}}

\* C1: a stored bid record is deleted only in a call that refunds the bid's
\* full amount to its bidder, or that pays the amount minus the fee out as the
\* proceeds of a sale of that same token to that same bidder.
BidDeletedOnlyWithPayout ==
  [][\A k \in DOMAIN bids :
       k \notin DOMAIN bids' =>
         \/ Transfer(bids[k].bidder, bids[k].amount, "refund", k) \in transfers'
         \/ /\ last'.op = "acceptBid"
            /\ k = _bidKeyGenerator(last'.collection, last'.token, last'.bidder)
            /\ nftOwner'[last'.collection][last'.token] = bids[k].bidder
            /\ \E x \in transfers' :
                 /\ x.kind = "price"
                 /\ x.key = k
                 /\ x.amount = u64(bids[k].amount
                                   - calculateMarketplaceFee(bids[k].amount))
    ]_vars

\* C2: while the owner of a listed token differs from the creator of its
\* offer, no buyOffer on that offer succeeds, whatever the approvals are.
StaleOfferNeverBought ==
  [][\A a \in Addrs, c \in Collections, t \in Tokens, v \in BuyAmounts :
       (/\ _keyGenerator(c, t) \in DOMAIN offers
        /\ nftOwner[c][t] # offers[_keyGenerator(c, t)].creatorAddress)
       => ~buyOffer(a, c, t, v)
    ]_vars

\* C3: there is at most one stored SellOffer per (collection, tokenId); a
\* sellOffer call for a pair that has a stored offer fails, and no step
\* changes the price, creator, expirationTime or createdTime of an offer that
\* stays stored.
OfferUniqueness ==
  /\ [](\A c \in Collections, t \in Tokens :
          /\ Cardinality({k \in DOMAIN offers :
                            /\ offers[k].collectionAddress = c
                            /\ offers[k].tokenId = toString(t)}) <= 1
          /\ _keyGenerator(c, t) \in DOMAIN offers =>
               \A a \in Addrs, p \in Prices, e \in ExpireIns :
                 sellOfferErr(a, c, t, p, e) # OK)
  /\ [][\A k \in DOMAIN offers :
          k \in DOMAIN offers' => offers'[k] = offers[k]]_vars

\* C3 witness: an offer is stored and a call by the approved owner of the
\* token is stopped by the existence check alone.
OfferUniquenessWitness ==
  \E a \in Addrs, c \in Collections, t \in Tokens :
    /\ _keyGenerator(c, t) \in DOMAIN offers
    /\ offers[_keyGenerator(c, t)].creatorAddress # a
    /\ sellOfferErr(a, c, t, 150, 1) = "Sell offer already exist"

\* C4: a successful acceptBid(c,t,b) leaves no bid on (c,t), refunds nothing
\* of the accepted bid, refunds every other bid on (c,t) with its stored
\* amount, leaves no offer on (c,t) and makes b the owner of the token.
AcceptBidExclusive ==
  [][last'.op = "acceptBid" =>
       LET c == last'.collection
           t == last'.token
           b == last'.bidder
           bidKey == _bidKeyGenerator(c, t, b)
       IN  /\ acceptBid(last'.caller, c, t, b)
           /\ bidsOn(bids', c, t) = {}
           /\ \A x \in transfers' : ~(x.kind = "refund" /\ x.key = bidKey)
           /\ \A k \in bidsOn(bids, c, t) \ {bidKey} :
                Transfer(bids[k].bidder, bids[k].amount, "refund", k)
                  \in transfers'
           /\ _keyGenerator(c, t) \notin DOMAIN offers'
           /\ nftOwner'[c][t] = b
    ]_vars

\* C4 witness: a bid was accepted while another bidder had a bid on the token.
AcceptBidExclusiveWitness ==
  /\ last.op = "acceptBid"
  /\ \E x \in transfers :
       /\ x.kind = "refund"
       /\ x.to # last.bidder
       /\ x.key = _bidKeyGenerator(last.collection, last.token, x.to)

\* C5: under a fee rate of at most 100, what a settlement pays the seller
\* plus the fee computed by calculateMarketplaceFee is the price exactly.
FeeConservation ==
  [][(marketplaceFee <= PERCENT /\ last'.op \in {"buyOffer", "acceptBid"}) =>
       LET c == last'.collection
           t == last'.token
           P == IF last'.op = "buyOffer"
                  THEN offers[_keyGenerator(c, t)].price
                  ELSE bids[_bidKeyGenerator(c, t, last'.bidder)].amount
       IN  \E x \in transfers' :
             /\ x.kind = "price"
             /\ x.to = nftOwner[c][t]
             /\ x.amount + calculateMarketplaceFee(P) = P
    ]_vars

\* C5 witness: a sale was settled with a fee that is not zero.
FeeConservationWitness ==
  /\ last.op \in {"buyOffer", "acceptBid"}
  /\ marketplaceFee <= PERCENT
  /\ \E x \in transfers : x.kind = "price" /\ x.amount > 0
  /\ \E x \in transfers : x.kind = "fee" /\ x.amount > 0

\* C6: the fee paid at a settlement at price P under a fee rate F of at most
\* 100 is floor(P * F / 100).
FeeIsFloorOfProduct ==
  [][marketplaceFee <= PERCENT =>
       \A a \in Addrs, c \in Collections, t \in Tokens, v \in BuyAmounts :
         buyOffer(a, c, t, v) =>
           \E x \in transfers' :
             /\ x.kind = "fee"
             /\ x.amount = (offers[_keyGenerator(c, t)].price * marketplaceFee)
                             \div PERCENT
    ]_vars

\* C7: whatever fee is stored, the fee computed for a stored price or bid
\* amount never exceeds it, so price - fee does not underflow.
FeeNeverExceedsAmount ==
  /\ \A k \in DOMAIN offers :
       calculateMarketplaceFee(offers[k].price) <= offers[k].price
  /\ \A k \in DOMAIN bids :
       calculateMarketplaceFee(bids[k].amount) <= bids[k].amount

\* C8: a successful acceptBid at amount A pays the seller A - fee and the
\* marketplace owner the fee, as buyOffer does, so that the whole amount A
\* leaves the contract.
AcceptBidSplitsLikeBuy ==
  [][\A a \in Addrs, c \in Collections, t \in Tokens, b \in Addrs :
       acceptBid(a, c, t, b) =>
         LET amount == bids[_bidKeyGenerator(c, t, b)].amount
         IN  /\ Transfer(marketplaceOwner, calculateMarketplaceFee(amount),
                         "fee", _bidKeyGenerator(c, t, b)) \in transfers'
             /\ total(salePayouts(transfers')) = amount
    ]_vars

\* C9 as stated: buyOffer on a stored offer with expirationTime < now fails
\* with the expiry error, and at now = expirationTime the expiry check does
\* not reject.
ExpiredBuyFailsWithExpiryError ==
  \A a \in Addrs, c \in Collections, t \in Tokens, v \in BuyAmounts :
    LET key == _keyGenerator(c, t)
    IN  key \in DOMAIN offers =>
          /\ offers[key].expirationTime < now =>
               buyOfferErr(a, c, t, v) = "Sell offer has expired"
          /\ offers[key].expirationTime = now =>
               buyOfferErr(a, c, t, v) # "Sell offer has expired"

\* C9 amended: buyOffer on a stored offer with expirationTime < now fails;
\* the error is the expiry error when the collection is registered, and the
\* collection error otherwise; at now = expirationTime the expiry check does
\* not reject, and a buy of a registered collection's token by a payer of the
\* price is decided by the later checks.
ExpiredBuyFails ==
  \A a \in Addrs, c \in Collections, t \in Tokens, v \in BuyAmounts :
    LET key == _keyGenerator(c, t)
    IN  key \in DOMAIN offers =>
          /\ offers[key].expirationTime < now =>
               /\ buyOfferErr(a, c, t, v) # OK
               /\ buyOfferErr(a, c, t, v) =
                    IF _hasCollection(c) THEN "Sell offer has expired"
                    ELSE "Collection not found in marketplace"
          /\ offers[key].expirationTime = now =>
               /\ buyOfferErr(a, c, t, v) # "Sell offer has expired"
               /\ (/\ _hasCollection(c)
                   /\ v >= offers[key].price
                   /\ transferFromAllowed(c, nftOwner[c][t], t)
                   /\ transferCoinsAllowed(buyOfferTransfers(c, t), v))
                  => buyOfferErr(a, c, t, v) = OK

\* C9 witness: an offer outlived its expiration time, its scheduled deletion
\* has not run, and a buy that pays the price is stopped by the expiry check.
ExpiredBuyFailsWitness ==
  \E a \in Addrs, c \in Collections, t \in Tokens :
    /\ _keyGenerator(c, t) \in DOMAIN offers
    /\ offers[_keyGenerator(c, t)].expirationTime < now
    /\ \E m \in messages : m.collection = c /\ m.token = t
    /\ transferFromAllowed(c, nftOwner[c][t], t)
    /\ buyOfferErr(a, c, t, offers[_keyGenerator(c, t)].price)
         = "Sell offer has expired"

\* C10: removeSellOffer succeeds only for a caller that is both the creator
\* recorded in the stored offer and the current owner of the token.
RemoveOnlyByCreatorAndOwner ==
  [][\A a \in Addrs, c \in Collections, t \in Tokens :
       removeSellOffer(a, c, t) =>
         /\ a = offers[_keyGenerator(c, t)].creatorAddress
         /\ a = nftOwner[c][t]
    ]_vars

\* C11: the store holds at most one bid per (collection, token, bidder), and
\* a placeBid by a bidder who has a stored bid of amount A1, with A2 coins
\* attached, refunds exactly A1 to that bidder and leaves that bidder one
\* bid, of amount A2.
BidReplacedNotDuplicated ==
  /\ [](\A c \in Collections, t \in Tokens, b \in Addrs :
          Cardinality({k \in bidsOn(bids, c, t) : bids[k].bidder = b}) <= 1)
  /\ [][last'.op = "placeBid" =>
          LET b == last'.caller
              k == _bidKeyGenerator(last'.collection, last'.token, b)
          IN  k \in DOMAIN bids =>
                /\ transfers' = {Transfer(b, bids[k].amount, "refund", k)}
                /\ bids'[k].bidder = b
                /\ bids'[k].amount = (balance' - balance) + bids[k].amount
                /\ DOMAIN bids' = DOMAIN bids
       ]_vars

\* C11 witness: a bidder replaced a stored bid by one of another amount.
BidReplacedNotDuplicatedWitness ==
  /\ last.op = "placeBid"
  /\ \E x \in transfers :
       /\ x.kind = "refund"
       /\ x.to = last.caller
       /\ x.key \in DOMAIN bids
       /\ x.amount = 100
       /\ bids[x.key].amount = 150

\* C12: a settlement of (c,t), by buyOffer or by acceptBid, is a step from a
\* state in which an offer for (c,t) is stored; none happens once the
\* autonomous call has deleted the offer, whatever bids remain.
SettlementOnlyWhenListed ==
  [][(\/ last'.op \in {"buyOffer", "acceptBid"}
      \/ \E x \in transfers' : x.kind = "price")
     => /\ last'.op \in {"buyOffer", "acceptBid"}
        /\ _keyGenerator(last'.collection, last'.token) \in DOMAIN offers
        /\ \E x \in transfers' :
             /\ x.kind = "price"
             /\ x.to = nftOwner[last'.collection][last'.token]
    ]_vars

\* C12 witness: the autonomous call deleted an offer, a bid on the token
\* remains, and the acceptance of that bid by the approved owner of the
\* token is stopped by the deletion of the missing offer alone.
SettlementOnlyWhenListedWitness ==
  \E c \in Collections, t \in Tokens, b \in Addrs :
    /\ _keyGenerator(c, t) \notin DOMAIN offers
    /\ \A m \in messages : ~(m.collection = c /\ m.token = t)
    /\ _bidKeyGenerator(c, t, b) \in DOMAIN bids
    /\ acceptBidErr(nftOwner[c][t], c, t, b) = "del failed"

\* C13: a successful buyOffer, removeSellOffer or adminDeleteOffer on (c,t)
\* leaves no bid on (c,t), has paid every bidder on (c,t) the stored amount
\* of the bid, once, and leaves no offer stored for (c,t).
BulkResetRefundsAll ==
  [][last'.op \in {"buyOffer", "removeSellOffer", "adminDeleteOffer"} =>
       LET c == last'.collection
           t == last'.token
       IN  /\ bidsOn(bids', c, t) = {}
           /\ \A k \in bidsOn(bids, c, t) :
                /\ Transfer(bids[k].bidder, bids[k].amount, "refund", k)
                     \in transfers'
                /\ Cardinality({x \in transfers' :
                                  x.kind = "refund" /\ x.key = k}) = 1
           /\ _keyGenerator(c, t) \notin DOMAIN offers'
    ]_vars

\* C13 witness: a token was bought while two bidders had bids on it.
BulkResetRefundsAllWitness ==
  /\ last.op = "buyOffer"
  /\ \E x, y \in transfers :
       /\ x.kind = "refund" /\ y.kind = "refund"
       /\ x.to # y.to
       /\ x.key = _bidKeyGenerator(last.collection, last.token, x.to)
       /\ y.key = _bidKeyGenerator(last.collection, last.token, y.to)

SellOfferRejections ==
  /\ [](\A a \in Addrs, c \in Collections, t \in Tokens, p \in Prices,
           e \in ExpireIns :
          (\/ ~_hasCollection(c)
           \/ _keyGenerator(c, t) \in DOMAIN offers
           \/ _getNFTOwner(c, t) # a
           \/ ~isApprovedForAll(c, a))
          => sellOfferErr(a, c, t, p, e) # OK)
  /\ [][last'.op = "sellOffer" =>
          LET a == last'.caller
              c == last'.collection
              t == last'.token
              key == _keyGenerator(c, t)
          IN  /\ _hasCollection(c)
              /\ key \notin DOMAIN offers
              /\ _getNFTOwner(c, t) = a
              /\ isApprovedForAll(c, a)
              /\ \E p \in Prices, e \in ExpireIns :
                   /\ offers' = set(offers, key,
                                    [collectionAddress |-> c,
                                     tokenId |-> toString(t),
                                     price |-> p,
                                     creatorAddress |-> a,
                                     expirationTime |-> now + e,
                                     createdTime |-> now])
                   /\ \E m \in messages' \ messages :
                        /\ m.collection = c
                        /\ m.token = t
                        /\ startTime(m) = now + e
       ]_vars
  /\ [][(offers' # offers /\ DOMAIN offers \subseteq DOMAIN offers')
          \/ messages' \ messages # {}
        => last'.op = "sellOffer"]_vars

\* C15 witness: the owner of a token of a registered collection, with no
\* offer stored for it, is refused for the missing approval alone, while
\* another account is refused as not being the owner.
SellOfferRejectionsWitness ==
  \E a, b \in Addrs, c \in Collections, t \in Tokens :
    /\ _hasCollection(c)
    /\ _keyGenerator(c, t) \notin DOMAIN offers
    /\ \E u \in Tokens : _keyGenerator(c, u) \in DOMAIN offers
    /\ sellOfferErr(a, c, t, 150, 1) = "Marketplace not approved for trading"
    /\ sellOfferErr(b, c, t, 150, 1) = "You are not the owner of NFT"

\* C16: acceptBid(c,t,b) fails when the caller is not the owner of (c,t) or
\* no bid by b on (c,t) is stored; one that succeeds is called by the owner
\* and for a stored bid.
AcceptBidPreconditions ==
  /\ [](\A a \in Addrs, c \in Collections, t \in Tokens, b \in Addrs :
          (\/ _getNFTOwner(c, t) # a
           \/ _bidKeyGenerator(c, t, b) \notin DOMAIN bids)
          => acceptBidErr(a, c, t, b) # OK)
  /\ [][last'.op = "acceptBid" =>
          /\ _getNFTOwner(last'.collection, last'.token) = last'.caller
          /\ _bidKeyGenerator(last'.collection, last'.token, last'.bidder)
               \in DOMAIN bids
       ]_vars

\* C16 witness: on a listed token with a stored bid, an account that is not
\* the owner is refused as such, and the owner is refused for a bidder that
\* has no bid, while the acceptance of the stored bid would go through.
AcceptBidPreconditionsWitness ==
  \E a, b, b2 \in Addrs, c \in Collections, t \in Tokens :
    /\ acceptBidErr(a, c, t, b) = "You are not the owner of the NFT"
    /\ acceptBidErr(nftOwner[c][t], c, t, b2) = "Bid not found"
    /\ acceptBidErr(nftOwner[c][t], c, t, b) = OK

\* C17: placeBid(c,t) goes through if and only if the collection c is
\* registered and an offer for (c,t) is stored, whatever coins are attached.
PlaceBidIffListed ==
  \A a \in Addrs, c \in Collections, t \in Tokens, v \in WideBidAmounts :
    placeBidErr(a, c, t, v) = OK <=>
      (_hasCollection(c) /\ _keyGenerator(c, t) \in DOMAIN offers)

\* C18: removeBid(c,t) fails when the caller has no stored bid on (c,t); one
\* that succeeds sends the caller the stored amount of that bid and nothing
\* else, deletes that record alone, and leaves the other bids, the offers
\* and the rest of the state as they were.
RemoveBidFrame ==
  /\ [](\A a \in Addrs, c \in Collections, t \in Tokens :
          _bidKeyGenerator(c, t, a) \notin DOMAIN bids
            => removeBidErr(a, c, t) = "Bid not found")
  /\ [][last'.op = "removeBid" =>
          LET a == last'.caller
              k == _bidKeyGenerator(last'.collection, last'.token, a)
          IN  /\ k \in DOMAIN bids
              /\ transfers' = {Transfer(a, bids[k].amount, "refund", k)}
              /\ balance' = balance - bids[k].amount
              /\ DOMAIN bids' = DOMAIN bids \ {k}
              /\ \A j \in DOMAIN bids' : bids'[j] = bids[j]
              /\ UNCHANGED <<collections, marketplaceOwner, marketplaceFee,
                             offers, nftOwner, approvedForAll, now, messages,
                             listings, bidCalls, events>>
       ]_vars

\* C18 witness: a bidder withdrew a bid while another bidder's bid on the
\* same token and the token's offer stayed stored.
RemoveBidFrameWitness ==
  /\ last.op = "removeBid"
  /\ _keyGenerator(last.collection, last.token) \in DOMAIN offers
  /\ \E b \in Addrs \ {last.caller} :
       _bidKeyGenerator(last.collection, last.token, b) \in DOMAIN bids
  /\ \E x \in transfers : x.kind = "refund" /\ x.to = last.caller

\* C19: while adminSendCoins is unused, every stored bid (c,t,b) can be
\* withdrawn: removeBid(c,t) called by b succeeds and pays b the stored
\* amount, whether or not the offer for (c,t) is still stored or live and
\* whether or not c is still registered.
EveryBidWithdrawable ==
  \A b \in Addrs, c \in Collections, t \in Tokens :
    LET k == _bidKeyGenerator(c, t, b)
    IN  k \in DOMAIN bids =>
          /\ removeBidErr(b, c, t) = OK
          /\ balance >= bids[k].amount

\* C20: autonomousDeleteOffer called by anyone but the marketplace contract
\* itself fails and changes nothing, offer stored or not; an offer is
\* deleted through this entry point only by a call of the contract to
\* itself.
OnlySelfCallDeletes ==
  /\ [](\A a \in Addrs, c \in Collections, t \in Tokens :
          /\ autonomousDeleteOfferErr(a, c, t) # OK
          /\ ~ ENABLED autonomousDeleteOffer(a, c, t))
  /\ [][last'.op = "autonomousDeleteOffer" =>
          LET k == _keyGenerator(last'.collection, last'.token)
          IN  /\ last'.caller = SELF
              /\ k \in DOMAIN offers
              /\ offers' = del(offers, {k})
       ]_vars

\* C20 witness: the contract's call to itself deleted one offer while
\* another offer, which no account can delete through this entry point,
\* is still stored.
OnlySelfCallDeletesWitness ==
  /\ last.op = "autonomousDeleteOffer"
  /\ last.caller = SELF
  /\ _keyGenerator(last.collection, last.token) \notin DOMAIN offers
  /\ DOMAIN offers # {}

EveryOfferEventuallyDeleted ==
  \A c \in Collections, t \in Tokens :
    (_keyGenerator(c, t) \in DOMAIN offers)
      ~> (_keyGenerator(c, t) \notin DOMAIN offers)

\* C22 as stated: with a fair scheduler every offer is eventually deleted,
\* and once the autonomous call has deleted the offer of (c,t) every
\* buyOffer(c,t) fails with the offer-not-found error.
ExpiredOfferNotFound ==
  /\ EveryOfferEventuallyDeleted
  /\ [](last.op = "autonomousDeleteOffer" =>
          \A a \in Addrs, v \in BuyAmounts :
            buyOfferErr(a, last.collection, last.token, v)
              = "Sell offer doesnt exist")

\* C22: with a fair scheduler every offer that no call removes is eventually
\* deleted; while no offer is stored for (c,t), every buyOffer(c,t) fails:
\* with the offer-not-found error if c is registered, and with the
\* collection-not-found error if c has been unregistered.
ExpiredOfferDeletedThenBuyFails ==
  /\ EveryOfferEventuallyDeleted
  /\ [](\A c \in Collections, t \in Tokens :
          _keyGenerator(c, t) \notin DOMAIN offers =>
            \A a \in Addrs, v \in BuyAmounts :
              buyOfferErr(a, c, t, v) =
                IF _hasCollection(c) THEN "Sell offer doesnt exist"
                ELSE "Collection not found in marketplace")
  /\ [][last'.op = "buyOffer" =>
          _keyGenerator(last'.collection, last'.token) \in DOMAIN offers]_vars

\* C22 witness: the scheduler deleted an expired offer of a registered
\* collection, and a buyer who sends the price gets the offer-not-found error.
ExpiredOfferDeletedThenBuyFailsWitness ==
  /\ last.op = "autonomousDeleteOffer"
  /\ _hasCollection(last.collection)
  /\ _keyGenerator(last.collection, last.token) \notin DOMAIN offers
  /\ \E v \in BuyAmounts :
       buyOfferErr("a1", last.collection, last.token, v)
         = "Sell offer doesnt exist"

\* the coins of all the stored bids
escrowed == total({Transfer(bids[k].bidder, bids[k].amount, "refund", k) :
                     k \in DOMAIN bids})

\* C23: an expired offer whose autonomous call has not been executed is not
\* stuck.  Whenever the balance covers the stored bids, adminDeleteOffer(c,t)
\* by the marketplace owner succeeds, the collection being registered or
\* not; the call removes the offer, and after it nothing of the old offer
\* stops a new sellOffer on (c,t) by the token's owner.
ExpiredOfferNotStuck ==
  /\ [](\A c \in Collections, t \in Tokens :
          LET k == _keyGenerator(c, t)
          IN  (/\ k \in DOMAIN offers
               /\ now > offers[k].expirationTime
               /\ escrowed <= balance)
                => adminDeleteOfferErr(marketplaceOwner, c, t) = OK)
  /\ [](last.op = "adminDeleteOffer" =>
          LET c == last.collection
              t == last.token
              o == _getNFTOwner(c, t)
          IN  /\ _keyGenerator(c, t) \notin DOMAIN offers
              /\ \A p \in Prices, e \in ExpireIns \ {0} :
                   (/\ _hasCollection(c)
                    /\ isApprovedForAll(c, o)
                    /\ balance >= RAW_FEE)
                     => sellOfferErr(o, c, t, p, e) = OK)

\* C23 witness: the owner deleted an expired offer, refunding a bid, while
\* the offer's autonomous call is still pending past its start, and the
\* token's owner can list (c,t) again.
ExpiredOfferNotStuckWitness ==
  /\ last.op = "adminDeleteOffer"
  /\ transfers # {}
  /\ \E m \in messages : /\ m.collection = last.collection
                          /\ m.token = last.token
                          /\ startTime(m) < now
  /\ \E p \in Prices, e \in ExpireIns :
       sellOfferErr(_getNFTOwner(last.collection, last.token),
                    last.collection, last.token, p, e) = OK

AdminOps == {"adminAddCollection", "adminDeleteCollection",
             "adminChangeMarketplaceOwner", "adminChangeMarketplaceFee",
             "adminDeleteOffer", "adminRemoveBid", "adminSendCoins",
             "upgradeSmartContract"}

\* the messages the eight owner-gated entry points answer to `caller`,
\* over all the arguments
adminErrs(caller) ==
  {adminAddCollectionErr(caller, c) : c \in Collections}
  \cup {adminDeleteCollectionErr(caller, c) : c \in Collections}
  \cup {adminChangeMarketplaceOwnerErr(caller, n) : n \in NewOwners}
  \cup {adminChangeMarketplaceFeeErr(caller, f) : f \in Fees}
  \cup {adminDeleteOfferErr(caller, c, t) : c \in Collections, t \in Tokens}
  \cup {adminRemoveBidErr(caller, c, t, b) :
          c \in Collections, t \in Tokens, b \in Addrs}
  \cup {adminSendCoinsErr(caller, to, v) : to \in Receivers, v \in SendAmounts}
  \cup {upgradeSmartContractErr(caller, b) : b \in Bytecodes}

\* C24: each of the eight admin entry points fails, changing nothing, for a
\* caller that is not the stored marketplace owner, so every admin step is
\* a call of the owner stored before it; once adminChangeMarketplaceOwner(n)
\* has succeeded the previous owner's admin calls fail and none of n's is
\* refused for its caller.
AdminOnlyOwner ==
  /\ [](\A a \in Addrs \ {marketplaceOwner} : adminErrs(a) = {NotOwner})
  /\ [](NotOwner \notin adminErrs(marketplaceOwner))
  /\ [][last'.op \in AdminOps => last'.caller = marketplaceOwner]_vars
  /\ [](last.op = "adminChangeMarketplaceOwner" =>
          /\ marketplaceOwner = last.bidder
          /\ last.caller # last.bidder
          /\ adminErrs(last.caller) = {NotOwner}
          /\ NotOwner \notin adminErrs(last.bidder))

\* C24 witness: after a change of owner the new owner deleted an offer.
AdminOnlyOwnerWitness ==
  /\ last.op = "adminDeleteOffer"
  /\ last.caller = marketplaceOwner
  /\ marketplaceOwner \in NewOwners
  /\ adminErrs("a1") = {NotOwner}

\* C25: of the buyOffer calls made on one listing of (c,t), in whatever
\* order the chain runs them, at most one succeeds.  The call that succeeds
\* moves the token once, pays the seller once and takes the listing out of
\* the store; while no offer is stored every buyOffer(c,t) fails, and only
\* a sellOffer, which makes a new listing, stores an offer again.
AtMostOneBuyPerListing ==
  /\ [][last'.op = "buyOffer" =>
          LET c == last'.collection
              t == last'.token
              k == _keyGenerator(c, t)
          IN  /\ k \in DOMAIN offers
              /\ k \notin DOMAIN offers'
              /\ nftOwner' = [nftOwner EXCEPT ![c][t] = last'.caller]
              /\ Cardinality({x \in transfers' : x.kind = "price"}) = 1
              /\ \A x \in transfers' :
                   x.kind = "price" => x.to = nftOwner[c][t]
       ]_vars
  /\ [](\A a \in Addrs, c \in Collections, t \in Tokens, v \in BuyAmounts :
          _keyGenerator(c, t) \notin DOMAIN offers
            => buyOfferErr(a, c, t, v) # OK)
  /\ [][\A k \in offerKeys :
          (k \notin DOMAIN offers /\ k \in DOMAIN offers')
            => (last'.op = "sellOffer"
                /\ k = _keyGenerator(last'.collection, last'.token))
       ]_vars

\* C25 witness: a buyer bought the token, and a second buyer who sends the
\* price for the same listing is turned away.
AtMostOneBuyPerListingWitness ==
  /\ last.op = "buyOffer"
  /\ _hasCollection(last.collection)
  /\ \E a \in Addrs \ {last.caller}, v \in Prices :
       buyOfferErr(a, last.collection, last.token, v)
         = "Sell offer doesnt exist"

\* C26: autonomousDeleteOffer never deletes an offer whose expirationTime
\* is later than the current time; the call scheduled by an earlier listing
\* of (c,t) does not delete a later listing before that listing's expiry.
AutonomousDeleteOnlyExpired ==
  [][last'.op = "autonomousDeleteOffer" =>
       offers[_keyGenerator(last'.collection, last'.token)].expirationTime
         <= now
    ]_vars

\* C27: the reset of the bids done by buyOffer, removeSellOffer,
\* adminDeleteOffer and acceptBid on (c,t) refunds and deletes only bids
\* placed on exactly token t of collection c; every bid on another token,
\* also one whose decimal identifier begins with the digits of t, and on
\* another collection stays as it was.
ResetBidsOnlyOnToken ==
  [][last'.op \in {"buyOffer", "removeSellOffer", "adminDeleteOffer",
                   "acceptBid"} =>
       /\ \A k \in DOMAIN bids \ bidsOn(bids, last'.collection, last'.token) :
            k \in DOMAIN bids' /\ bids'[k] = bids[k]
       /\ \A x \in transfers' :
            x.kind = "refund"
              => x.key \in bidsOn(bids, last'.collection, last'.token)
    ]_vars

\* C28: for an expirationTime at or after genesis, sellOffer schedules the
\* autonomous call with startPeriod = floor((expirationTime - genesis) /
\* 16000), startThread = floor((expirationTime - genesis - startPeriod *
\* 16000) / 500), which lies in 0..31, endPeriod = startPeriod + 10 and
\* endThread = 31; the timestamp of the start slot is at most expirationTime
\* and less than 500 ms before it.
ScheduledAtExpirySlot ==
  [][last'.op = "sellOffer" =>
       LET k == _keyGenerator(last'.collection, last'.token)
           d == offers'[k].expirationTime - genesisTimestamp
       IN  /\ d >= 0
           /\ Cardinality(messages' \ messages) = 1
           /\ \A m \in messages' \ messages :
                /\ m.collection = last'.collection /\ m.token = last'.token
                /\ m.startPeriod = d \div 16000
                /\ m.startThread = (d - m.startPeriod * 16000) \div 500
                /\ m.startThread \in 0..31
                /\ m.endPeriod = m.startPeriod + 10
                /\ m.endThread = 31
                /\ startTime(m) <= offers'[k].expirationTime
                /\ offers'[k].expirationTime - startTime(m) < 500
    ]_vars

\* C28 witness: an offer that expires one millisecond before a period ends,
\* more than a period after genesis, is scheduled in the last thread.
ScheduledAtExpirySlotWitness ==
  /\ last.op = "sellOffer"
  /\ \E m \in messages :
       /\ m.collection = last.collection /\ m.token = last.token
       /\ m.startPeriod > 0
       /\ m.startThread = 31
       /\ offers[_keyGenerator(last.collection, last.token)].expirationTime
            = startTime(m) + 499

\* C29: a sellOffer succeeds only if expirationTime = now + expireIn, taken
\* in the unsigned word, is greater than now: expireIn = 0 and sums that
\* wrap around are rejected; with the clock at or after genesis no stored
\* offer expires before genesis, and expirationTime - genesisTimestamp does
\* not underflow.
SellOfferEndTimeChecked ==
  /\ [](\A a \in Addrs, c \in Collections, t \in Tokens, p \in Prices,
           e \in WideExpireIns :
          sellOfferErr(a, c, t, p, e) = OK
            => (e > 0 /\ now + e < U64 /\ u64(now + e) > now))
  /\ [](now >= genesisTimestamp =>
          \A k \in DOMAIN offers :
            /\ offers[k].expirationTime > offers[k].createdTime
            /\ offers[k].expirationTime >= genesisTimestamp
            /\ u64(offers[k].expirationTime - genesisTimestamp)
                 = offers[k].expirationTime - genesisTimestamp)
  /\ [][last'.op = "sellOffer" =>
          \E e \in WideExpireIns :
            /\ e > 0
            /\ offers'[_keyGenerator(last'.collection, last'.token)]
                  .expirationTime = now + e
       ]_vars

\* C29 witness: an offer was listed while the same call with a wrapping
\* expireIn, and with expireIn = 0, is rejected for its end time.
SellOfferEndTimeCheckedWitness ==
  /\ last.op = "sellOffer"
  /\ \E e \in WideExpireIns, p \in Prices :
       /\ now + e >= U64
       /\ sellOfferErr(last.caller, last.collection, last.token, p, e)
            = "The end time must be greater than the Context.timestamp()"
  /\ \E p \in Prices :
       sellOfferErr(last.caller, last.collection, last.token, p, 0)
         = "The end time must be greater than the Context.timestamp()"

\* C30: no entry point rewrites a stored offer: in every step with an offer
\* for (c,t) stored before and after it, the offer's price, creator,
\* expirationTime and createdTime are the same; an offer enters the store
\* only in a sellOffer on a key that holds none, so other values for (c,t)
\* come only from a deletion and a later sellOffer.
NoOfferUpdateInPlace ==
  /\ [][\A k \in DOMAIN offers \cap DOMAIN offers' :
          /\ offers'[k].price = offers[k].price
          /\ offers'[k].creatorAddress = offers[k].creatorAddress
          /\ offers'[k].expirationTime = offers[k].expirationTime
          /\ offers'[k].createdTime = offers[k].createdTime
       ]_vars
  /\ [][\A k \in DOMAIN offers' \ DOMAIN offers :
          /\ last'.op = "sellOffer"
          /\ k = _keyGenerator(last'.collection, last'.token)
       ]_vars

\* C30 witness: (c,t) is listed again, with another expiry than the listing
\* whose deferred call is still pending.
NoOfferUpdateInPlaceWitness ==
  /\ last.op = "sellOffer"
  /\ \E m \in messages :
       /\ m.collection = last.collection /\ m.token = last.token
       /\ startTime(m)
            < offers[_keyGenerator(last.collection, last.token)].expirationTime


\* the coins of a call that left the contract through transferCoins: the
\* fee and price of a sale, the refund of a bid, the owner's withdrawal
sentWithTransferCoins(ts) ==
  total({x \in ts : x.kind \in {"fee", "price", "refund", "send"}})

\* every call other than adminSendCoins adds at least as much to the coins
\* attached to placeBid and buyOffer less the coins sent with transferCoins
\* as it adds to the amounts of the stored bids
EscrowAccounting ==
  [][LET attached == IF last'.op \in {"placeBid", "buyOffer"}
                       THEN balance' - balance + total(transfers')
                       ELSE 0
     IN  last'.op # "adminSendCoins" =>
           attached - sentWithTransferCoins(transfers') >= escrowed' - escrowed
    ]_vars

\* C31: escrow solvency.  In every state reached without adminSendCoins the
\* coins attached to placeBid and buyOffer less the coins sent out with
\* transferCoins are at least the sum of the stored bids' amounts (no bid
\* is stored at deployment, and every call keeps the difference), and the
\* contract holds at least the sum of the stored bids' amounts.
EscrowSolvency ==
  /\ EscrowAccounting
  /\ [](balance >= escrowed)


\* the coins a call paid out of stored bids: refunds, and the seller's share
\* of an accepted bid
bidPayouts(ts) ==
  {x \in ts : x.kind = "refund" \/ (x.kind = "price" /\ x.key \in DOMAIN bids)}

\* C32: a bid's escrowed amount leaves the contract at most once.  Every
\* coin a call pays out of a bid is paid from a record stored when the call
\* starts, in the record's amount (less the fee in acceptBid), and after the
\* call that record is deleted, or overwritten by the placeBid that refunded
\* it; while no record is stored under a bid key, removeBid, acceptBid and
\* adminRemoveBid on that key fail with the bid-not-found error and no reset
\* refunds it.
BidPaidAtMostOnce ==
  /\ [][\A x \in bidPayouts(transfers') :
          /\ x.key \in DOMAIN bids
          /\ x.amount = IF x.kind = "refund" THEN bids[x.key].amount
                        ELSE u64(bids[x.key].amount
                                 - calculateMarketplaceFee(bids[x.key].amount))
          /\ \/ x.key \notin DOMAIN bids'
             \/ /\ last'.op = "placeBid"
                /\ x.key = _bidKeyGenerator(last'.collection, last'.token,
                                            last'.caller)
                /\ bids'[x.key].amount = (balance' - balance) + x.amount
       ]_vars
  /\ [](\A c \in Collections, t \in Tokens, b \in Addrs :
          LET k == _bidKeyGenerator(c, t, b)
          IN  k \notin DOMAIN bids =>
                /\ removeBidErr(b, c, t) = "Bid not found"
                /\ adminRemoveBidErr(marketplaceOwner, c, t, b)
                     = "Bid not found"
                /\ \A a \in Addrs : acceptBidErr(a, c, t, b) = "Bid not found"
                /\ \A c2 \in Collections, t2 \in Tokens, a \in Addrs \cup {""} :
                     \A x \in resetBidsTransfers(bids, c2, t2, a) : x.key # k)

\* C32 witness: a bid was refunded by a reset while another bid stays
\* stored, and the refunded bidder's removeBid now finds no bid.
BidPaidAtMostOnceWitness ==
  /\ last.op \in {"buyOffer", "removeSellOffer", "acceptBid",
                  "adminDeleteOffer"}
  /\ DOMAIN bids # {}
  /\ \E x \in transfers :
       /\ x.kind = "refund"
       /\ x.key \notin DOMAIN bids
       /\ \E c \in Collections, t \in Tokens :
            /\ x.key = _bidKeyGenerator(c, t, x.to)
            /\ removeBidErr(x.to, c, t) = "Bid not found"


\* C33: a successful buyOffer with A coins attached to an offer of price P
\* (A >= P) pays the seller and the marketplace owner P in total whatever A
\* is; besides that it sends only the coins of the collection call and the
\* refunds of the token's stored bids, each in its stored amount, so the
\* excess A - P goes to nobody and stays in the contract's balance.
BuyExcessStays ==
  [][\A a \in Addrs, c \in Collections, t \in Tokens,
        v \in ExcessBuyAmounts :
       buyOffer(a, c, t, v) =>
         LET key == _keyGenerator(c, t)
             price == offers[key].price
             refunds == {x \in transfers' : x.kind = "refund"}
         IN  /\ v >= price
             /\ total(salePayouts(transfers')) = price
             /\ \A x \in transfers' \ salePayouts(transfers') :
                  \/ x = Transfer(c, CALL_COINS, "call", key)
                  \/ /\ x.kind = "refund"
                     /\ x.key \in DOMAIN bids
                     /\ x = Transfer(bids[x.key].bidder, bids[x.key].amount,
                                     "refund", x.key)
             /\ balance' = balance + (v - price) - CALL_COINS - total(refunds)
    ]_vars

\* C33 witness: no bid is stored and a buyOffer has just succeeded with more
\* coins than the price; the difference is in the contract's balance.
BuyExcessStaysWitness ==
  /\ last.op = "buyOffer"
  /\ bids = EmptyStore
  /\ \E v \in ExcessBuyAmounts, p \in Prices :
       /\ v > p
       /\ total(salePayouts(transfers)) = p
       /\ balance % CALL_COINS = v - p


\* C34: in the marketplace whose adminSendCoins reads the balance, a call by
\* the marketplace owner with an amount up to the balance succeeds and sends
\* exactly that amount to the target, and a call ends with the no-funds
\* error only when the balance is smaller than the amount.
CheckedSendWithinBalance ==
  [][\A a \in Addrs, r \in Addrs, v \in CheckedSendAmounts :
       adminSendCoinsChecked(a, r, v) =>
         /\ (a = marketplaceOwner /\ v <= balance) =>
              /\ sendCoinsCall'.error = OK
              /\ transfers' = {Transfer(r, v, "send", <<>>)}
              /\ balance' = balance - v
         /\ sendCoinsCall'.error = NoFunds => balance < v
    ]_vars


\* C35: in the airdrop contract, for a fixed chapter and token, claimMAS
\* succeeds at most once and claimPUR succeeds at most once, the token
\* changing owner or not; a claim succeeds only for the token's current
\* owner; a claim of one kind changes neither the flag nor the outcome of
\* the other kind; after a successful claim hasClaimedMAS / hasClaimedPUR
\* holds for the token for as long as the chapter stays the same.
ClaimedAtMostOnce ==
  /\ [](\A id \in DOMAIN airdrop.paid : airdrop.paid[id] <= 1)
  /\ [][\A u \in Tokens :
          last'.op = "claimMAS" /\ last'.token = u /\ airdrop' # airdrop =>
            /\ getNFTOwner(airdrop.nftSC, u) = last'.caller
            /\ ~hasClaimedMAS(u)
            /\ hasClaimedMAS(u)'
            /\ \A t \in Tokens : hasClaimedPUR(t)' = hasClaimedPUR(t)
            /\ \A a \in Addrs, t \in Tokens :
                 claimPURErr(a, t)' = claimPURErr(a, t)
       ]_vars
  /\ [][\A u \in Tokens :
          last'.op = "claimPUR" /\ last'.token = u /\ airdrop' # airdrop =>
            /\ getNFTOwner(airdrop.nftSC, u) = last'.caller
            /\ ~hasClaimedPUR(u)
            /\ hasClaimedPUR(u)'
            /\ \A t \in Tokens : hasClaimedMAS(t)' = hasClaimedMAS(t)
            /\ \A a \in Addrs, t \in Tokens :
                 claimMASErr(a, t)' = claimMASErr(a, t)
       ]_vars
  /\ [][\A t \in Tokens :
          airdrop'.chapter = airdrop.chapter =>
            /\ hasClaimedMAS(t) => hasClaimedMAS(t)'
            /\ hasClaimedPUR(t) => hasClaimedPUR(t)'
       ]_vars

\* C35 witness: a token whose MAS was claimed has changed owner; the new
\* owner's claimMAS is refused as already claimed, the new owner's claimPUR
\* is not, and the token's MAS was also claimed once in the other chapter.
ClaimedAtMostOnceWitness ==
  \E t \in Tokens :
    /\ hasClaimedMAS(t)
    /\ ~hasClaimedPUR(t)
    /\ getNFTOwner(airdrop.nftSC, t) \in NewOwners
    /\ \E id \in DOMAIN airdrop.paid :
         id[1] # airdrop.chapter /\ id[2] = t /\ id[3] = "MAS"
    /\ claimMASErr(getNFTOwner(airdrop.nftSC, t), t) = AlreadyClaimed
    /\ claimPURErr(getNFTOwner(airdrop.nftSC, t), t) = OK


\* C36: in the collection contract the mint counter never exceeds
\* totalSupply; a successful mint, and nothing else, raises the counter, by
\* exactly 1, and gives the token whose identifier is the new counter value
\* to the mint address, leaving the other tokens as they are; mint fails
\* (and so changes nothing) when the supply is exhausted, when minting is
\* paused, when now is before the start time, and when the attached coins
\* are below the mint price.
MintWithinSupply ==
  /\ [](currentSupply <= totalSupply)
  /\ [](DOMAIN nft.tokens = 1..currentSupply)
  /\ [][nft'.counter # nft.counter =>
          /\ last'.op = "mint"
          /\ nft'.counter = nft.counter + 1
          /\ DOMAIN nft'.tokens = DOMAIN nft.tokens \cup {nft'.counter}
          /\ nft'.counter \notin DOMAIN nft.tokens
          /\ nft'.tokens[nft'.counter] = last'.bidder
          /\ \A j \in DOMAIN nft.tokens : nft'.tokens[j] = nft.tokens[j]
          /\ nft'.totalSupply = nft.totalSupply
       ]_vars
  /\ [][last'.op = "mint" /\ nft' # nft => nft'.counter # nft.counter]_vars
  /\ [](\A a \in Addrs, to \in Addrs, v \in MintCoins :
          \/ currentSupply >= totalSupply
          \/ nft.paused
          \/ now < nft.startTime
          \/ v < nft.mintPrice
          => mintErr(a, to, v) # OK)

\* C36 witness: the last token of a collection of more than one token has
\* just been minted, and a further mint is refused for lack of supply.
MintWithinSupplyWitness ==
  /\ last.op = "mint"
  /\ totalSupply > 1
  /\ currentSupply = totalSupply
  /\ nft.tokens[currentSupply] = last.bidder
  /\ \A a \in Addrs, to \in Addrs, v \in MintCoins :
       mintErr(a, to, v) = "Max supply reached"

====
